---- MODULE Spec2Model ----
(***************************************************************************)
(* Token-bucket rate limiter of amsalmeron/api-rate-limiter.               *)
(*                                                                         *)
(* The middleware rateLimiter (middleware/rateLimiter.js) keeps one bucket *)
(* per API key in Redis, as the JSON text {tokens, lastRefillTime} under   *)
(* the key ratelimit:<key> with EX 3600.  The pure helpers live in         *)
(* utils/tokenBucket.js.                                                   *)
(*                                                                         *)
(* Numbers.  The code computes with IEEE doubles: refillRate is            *)
(* maxTokens / 3600000 tokens per millisecond.  Here a token count is held *)
(* exactly, as an integer number of 1/HOUR_IN_MS-ths of a token, so that   *)
(* one token is Scale(1) = 3600000 units and the refill rate is maxTokens  *)
(* units per millisecond.  Only SpecDouble computes as the code does, in     *)
(* doubles with their rounding; the other specifications do not model the  *)
(* rounding.                                                               *)
(*                                                                         *)
(* Time.  Date.now() is the variable now; the code reads it again at every *)
(* call, and the clock may move between two calls (Tick, ClockBack).       *)
(*                                                                         *)
(* Control.  One rateLimiter invocation is a process p; its await points   *)
(* split it into steps.  Redis executes GET and SET atomically, the code   *)
(* between two awaits only touches the invocation's locals and the clock.  *)
(***************************************************************************)
EXTENDS Integers, Sequences, FiniteSets, TLC

(* ------------------------------ constants ------------------------------ *)

HOUR_IN_MS == 3600000

EX == 3600

(* ------------------------------- bounds -------------------------------- *)

\* The clock moves at most MaxTicks times.
MaxTicks == 2

\* A same-instant run of checks is followed for this many checks past capacity.
MaxExtra == 2

Keys == {"k1"}

Procs == {"r1", "r2"}

\* max_requests_per_hour of the principals (small quotas, and the free tier 100).
Capacities == {1, 2}

CapacitiesSeq == {1, 3, 100}

CapacitiesRace == {1, 2, 3}

\* Inputs of the pure helpers: capacities and instants; the stored token
\* counts (0, 1/2, 1, 5/3, 3, 50 and 100 tokens) are TokensMath below.
CapacitiesMath == {1, 3, 7, 100}

InstantsMath == {0, 60000, 1800000, 3600000, 7200000}

\* Time between two applications of calculateTokens, in ms.
DeltasMath == {0, 60000, 1800000, 3600000}

\* Clock movements, in ms.
Deltas == {3000000, 3600000}

DeltasSeq == {60000, 3600000}

\* Clock regressions, in ms.
BackDeltas == {3000000}

\* One worker serves the requests one after the other.
Worker == CHOOSE p \in Procs : TRUE

(* ------------------------------ arithmetic ----------------------------- *)

Min(a, b) == IF a <= b THEN a ELSE b

\* n tokens in units of 1/HOUR_IN_MS token
Scale(n) == n * HOUR_IN_MS

\* Stored token counts the pure helpers are applied to.
TokensMath == {0, Scale(1) \div 2, Scale(1), (5 * Scale(1)) \div 3, Scale(3), Scale(50), Scale(100)}

\* Math.ceil(a / b) for b # 0
MathCeilDiv(a, b) == IF b > 0 THEN (a + b - 1) \div b ELSE (a + b + 1) \div b

\* Math.floor of a token count >= 0, in whole tokens
MathFloor(t) == t \div Scale(1)

(* --------------------------------- state ------------------------------- *)

VARIABLES
  now,                    \* Date.now(), ms
  ticks,                  \* number of clock movements so far
  redis,                  \* Redis: key -> [val, expireAt]; val = << >> is no entry
  max_requests_per_hour,  \* api_keys.max_requests_per_hour, per key
  pc,                     \* position of each rateLimiter invocation
  apiKey,                 \* req.apiKey.key
  maxTokens,              \* const maxTokens (whole tokens)
  bucketData,             \* reply of redisClient.get; << >> is null
  lastRefillTime,         \* let lastRefillTime
  calcNow,                \* const now inside calculateTokens
  currentTokens,          \* let currentTokens
  newTokenCount,          \* const newTokenCount
  payload,                \* JSON.stringify(...) handed to redisClient.set
  headers,                \* res.set(...): headers present and their values
  outcome,                \* "none", "next" (next() called) or "429"
  calls,                  \* how often the invocation called next() and res.json()
  ops,                    \* history: how the invocation's GET and SET ended
  burst,                  \* history, per key: checks started in the same-instant
                          \*   run that began with no entry (0: no such run)
  ord,                    \* history: position of the invocation's check in that run
  zeroRetry,              \* history, per key: -1, or tokens were stored as 0 at this
                          \*   instant: 0, then the Retry-After of the first denial
  inZero,                 \* history: the check began while zeroRetry >= 0
  hourStart,              \* history, per key: instant of the first allowed check
                          \*   of the hour being counted
  hourCount,              \* history, per key: allowed checks counted in that hour
  held,                   \* history, per key: whole tokens the bucket held when the
                          \*   overlapping invocations being counted began (-1: none)
  retryAt,                \* history, per key: the instant the Retry-After of a denial
                          \*   pointed to, no check allowed since (-1: none)
  api_keys,               \* the keys that have a row in the table api_keys
  is_active,              \* api_keys.is_active, per key
  stage,                  \* position of each request in the middleware chain
  x_api_key,              \* req.headers['x-api-key'] of the request
  req_apiKey,             \* req.apiKey: the row attached by apiKeyAuth
  statusCode,             \* res.statusCode once the response is sent (0: not yet)
  requestLog,             \* the requestLogModel.create of the request
  adminStatus,            \* status of the last response of the admin routes
  requests                \* number of requests received so far

locals == <<apiKey, maxTokens, bucketData, lastRefillTime, calcNow,
            currentTokens, newTokenCount, payload, headers, outcome, calls, ops>>

seqvars == <<burst, ord, zeroRetry, inZero>>

hourvars == <<hourStart, hourCount>>

\* The database and the middleware chain around rateLimiter.
appvars == <<api_keys, is_active, stage, x_api_key, req_apiKey, statusCode,
             requestLog, adminStatus, requests>>

\* What the steps of rateLimiter leave alone: the history variables and the
\* rest of the application.
history == <<seqvars, hourvars, held, retryAt, appvars>>

vars == <<now, ticks, redis, max_requests_per_hour, pc, locals, history>>

(* ------------------------- utils/tokenBucket.js ------------------------ *)

\* Mutant: the bucket refills twice per hour.
calculateRefillRateTwice(maxTok) == (2 * Scale(maxTok)) \div HOUR_IN_MS

calculateRefillRate(maxTok) == Scale(maxTok) \div HOUR_IN_MS

\* Mutant: the refill is added without the cap at maxTokens.
calculateTokensNoCap(lastTokenCount, lastRefill, maxTok, refillRate) ==
  lastTokenCount + (now - lastRefill) * refillRate

\* Mutant: only whole tokens are added.
calculateTokensWhole(lastTokenCount, lastRefill, maxTok, refillRate) ==
  Min(lastTokenCount + Scale(((now - lastRefill) * refillRate) \div Scale(1)), Scale(maxTok))

\* Mutant: the operands of the elapsed time are swapped.
calculateTokensBackward(lastTokenCount, lastRefill, maxTok, refillRate) ==
  Min(lastTokenCount + (lastRefill - now) * refillRate, Scale(maxTok))

\* Reads the clock itself (const now = Date.now()).
calculateTokens(lastTokenCount, lastRefill, maxTok, refillRate) ==
  LET timeSinceLastRefill == now - lastRefill
      tokensToAdd == timeSinceLastRefill * refillRate
  IN  Min(lastTokenCount + tokensToAdd, Scale(maxTok))

\* Mutant: the token is taken without a check.
canProceedAlways(tokens) == TRUE

\* Mutant: more than one token is required (> for >=).
canProceedStrict(tokens) == tokens > Scale(1)

\* Mutant: an empty bucket still admits (tokensRequired = 0).
canProceedEmptyOk(tokens) == tokens >= 0

\* Mutant: any positive balance admits.
canProceedPositive(tokens) == tokens > 0

canProceed(tokens) == tokens >= Scale(1)

\* Mutant: Math.floor for Math.ceil.
timeUntilNextTokenFloor(tokens, refillRate) ==
  IF tokens >= Scale(1) THEN 0
  ELSE (Scale(1) - tokens) \div refillRate

timeUntilNextToken(tokens, refillRate) ==
  IF tokens >= Scale(1) THEN 0
  ELSE MathCeilDiv(Scale(1) - tokens, refillRate)

(* ------------------------------ JSON, Redis ---------------------------- *)

NullText == << >>

\* JSON.stringify({tokens, lastRefillTime}): the text, field by field
JSONstringify(tokens, lrt) == <<"tokens", tokens, "lastRefillTime", lrt>>

\* JSON.parse of a text written by JSONstringify
JSONparse(text) == [tokens |-> text[2], lastRefillTime |-> text[4]]

NoEntry == [val |-> NullText, expireAt |-> 0]

HasEntry(k) == redis[k].val # NullText

\* An entry is gone once its time-to-live has elapsed.
Expired(k) == redis[k].val # NullText /\ now >= redis[k].expireAt

\* GET key
RedisGet(k) == IF redis[k].val = NullText \/ Expired(k) THEN NullText ELSE redis[k].val

\* Mutant: the time-to-live is taken in milliseconds (PX for EX).
RedisSetPX(k, text, seconds) ==
  [redis EXCEPT ![k] = [val |-> text, expireAt |-> now + seconds]]

\* Mutant: redisKey is the same text for every principal (one shared entry).
RedisSetShared(k, text, seconds) ==
  [b \in DOMAIN redis |-> [val |-> text, expireAt |-> now + seconds * 1000]]

\* SET key val EX seconds
RedisSet(k, text, seconds) ==
  [redis EXCEPT ![k] = [val |-> text, expireAt |-> now + seconds * 1000]]

NoHeaders == [set |-> {}, limit |-> 0, remaining |-> 0, reset |-> 0, retryAfter |-> 0]

NoOps == [get |-> "none", set |-> "none"]

NoCalls == [next |-> 0, json |-> 0]

\* A value some other client of the Redis instance left under the key: not JSON.
Garbage == <<"not json">>

\* Another such value: JSON, but an object without the two fields ({}).
EmptyObject == <<"{", "}">>

\* JSON.parse(text) throws a SyntaxError.
JSONparseThrows(text) == text # NullText /\ text # EmptyObject /\ Len(text) # 4

\* JSON.parse(text) succeeds, and bucket.tokens and bucket.lastRefillTime are
\* undefined.
JSONparseUndefined(text) == text = EmptyObject

\* No x-api-key header.
NoHeader == "(none)"

\* A value of x-api-key no row carries.
UnknownKey == "unknown"

\* req.apiKey is undefined.
NoRow == [key |-> NoHeader, max_requests_per_hour |-> 0]

\* No audit record is due.
NoLog == [state |-> "none", status_code |-> 0]

(* --------------------------------- Init -------------------------------- *)

\* No request has been received.
InitRequests ==
  /\ stage = [p \in Procs |-> "none"]
  /\ x_api_key = [p \in Procs |-> NoHeader]
  /\ req_apiKey = [p \in Procs |-> NoRow]
  /\ statusCode = [p \in Procs |-> 0]
  /\ requestLog = [p \in Procs |-> NoLog]
  /\ adminStatus = 0
  /\ requests = 0

InitLocals ==
  /\ pc = [p \in Procs |-> "idle"]
  /\ apiKey = [p \in Procs |-> CHOOSE k \in Keys : TRUE]
  /\ maxTokens = [p \in Procs |-> 0]
  /\ bucketData = [p \in Procs |-> NullText]
  /\ lastRefillTime = [p \in Procs |-> 0]
  /\ calcNow = [p \in Procs |-> 0]
  /\ currentTokens = [p \in Procs |-> 0]
  /\ newTokenCount = [p \in Procs |-> 0]
  /\ payload = [p \in Procs |-> NullText]
  /\ headers = [p \in Procs |-> NoHeaders]
  /\ outcome = [p \in Procs |-> "none"]
  /\ calls = [p \in Procs |-> NoCalls]
  /\ ops = [p \in Procs |-> NoOps]
  /\ burst = [k \in Keys |-> 0]
  /\ ord = [p \in Procs |-> 0]
  /\ zeroRetry = [k \in Keys |-> -1]
  /\ inZero = [p \in Procs |-> FALSE]
  /\ hourStart = [k \in Keys |-> 0]
  /\ hourCount = [k \in Keys |-> 0]
  /\ held = [k \in Keys |-> -1]
  /\ retryAt = [k \in Keys |-> -1]
  /\ InitRequests

InitWith(caps) ==
  /\ now = 0
  /\ ticks = 0
  /\ redis = [k \in Keys |-> NoEntry]
  /\ max_requests_per_hour \in [Keys -> caps]
  /\ api_keys = Keys
  /\ is_active = [k \in Keys |-> TRUE]
  /\ InitLocals

Init == InitWith(Capacities)

InitSeq == InitWith(CapacitiesSeq)

(* ------------------------- middleware/rateLimiter ---------------------- *)

\* A worker takes a request whose req.apiKey was attached by apiKeyAuth.
\* Lines 16-28: the locals of rateLimiter before the first await.
\* req.apiKey is the row with key k and max_requests_per_hour m.
EnterRow(p, k, m) ==
  /\ pc[p] \in {"idle", "done"}
  /\ apiKey' = [apiKey EXCEPT ![p] = k]
  /\ maxTokens' = [maxTokens EXCEPT ![p] = m]
  /\ headers' = [headers EXCEPT ![p] = NoHeaders]
  /\ outcome' = [outcome EXCEPT ![p] = "none"]
  /\ calls' = [calls EXCEPT ![p] = NoCalls]

\* The row is the one the table holds at this instant.
Enter(p, k) == EnterRow(p, k, max_requests_per_hour[k])

\* Lines 16-30: the request enters rateLimiter and Redis executes the GET.
GetRow(p, k, m) ==
  /\ EnterRow(p, k, m)
  /\ bucketData' = [bucketData EXCEPT ![p] = RedisGet(k)]
  /\ ops' = [ops EXCEPT ![p] =
               [get |-> IF RedisGet(k) = NullText THEN "null" ELSE "hit", set |-> "none"]]
  /\ pc' = [pc EXCEPT ![p] = "resume"]
  /\ UNCHANGED <<now, ticks, redis, max_requests_per_hour, lastRefillTime,
                 calcNow, currentTokens, newTokenCount, payload>>

Get(p, k) == GetRow(p, k, max_requests_per_hour[k])

\* The calls made so far by the invocation p is in, or is about to begin.
Calls(p) == IF pc[p] \in {"idle", "done"} THEN NoCalls ELSE calls[p]

\* The function returns: its locals are gone, res keeps headers and outcome.
Return(p) ==
  /\ pc' = [pc EXCEPT ![p] = "done"]
  /\ bucketData' = [bucketData EXCEPT ![p] = NullText]
  /\ lastRefillTime' = [lastRefillTime EXCEPT ![p] = 0]
  /\ calcNow' = [calcNow EXCEPT ![p] = 0]
  /\ currentTokens' = [currentTokens EXCEPT ![p] = 0]
  /\ newTokenCount' = [newTokenCount EXCEPT ![p] = 0]
  /\ payload' = [payload EXCEPT ![p] = NullText]

\* Mutant: fail closed, the alternative the design notes name (503).
CatchErrorClosed(p) ==
  /\ outcome' = [outcome EXCEPT ![p] = "503"]
  /\ calls' = [calls EXCEPT ![p] = [Calls(p) EXCEPT !.json = @ + 1]]
  /\ Return(p)

\* Mutant: the catch block answers with an error and calls next() as well.
CatchErrorBoth(p) ==
  /\ outcome' = [outcome EXCEPT ![p] = "next"]
  /\ calls' = [calls EXCEPT ![p] = [next |-> Calls(p).next + 1, json |-> Calls(p).json + 1]]
  /\ Return(p)

\* Lines 96-101: catch (error) { next() }
CatchError(p) ==
  /\ outcome' = [outcome EXCEPT ![p] = "next"]
  /\ calls' = [calls EXCEPT ![p] = [Calls(p) EXCEPT !.next = @ + 1]]
  /\ Return(p)

\* Mutant: a rejected GET is taken for a missing entry (cold start, then SET).
GetFailAsMiss(p, k) ==
  /\ Enter(p, k)
  /\ bucketData' = [bucketData EXCEPT ![p] = NullText]
  /\ ops' = [ops EXCEPT ![p] = [get |-> "fail", set |-> "none"]]
  /\ pc' = [pc EXCEPT ![p] = "resume"]
  /\ UNCHANGED <<now, ticks, redis, max_requests_per_hour, lastRefillTime,
                 calcNow, currentTokens, newTokenCount, payload>>

\* Lines 16-30 and 96-101: the request enters rateLimiter and the GET is
\* rejected (Redis unreachable).
GetFailRow(p, k, m) ==
  /\ pc[p] \in {"idle", "done"}
  /\ apiKey' = [apiKey EXCEPT ![p] = k]
  /\ maxTokens' = [maxTokens EXCEPT ![p] = m]
  /\ headers' = [headers EXCEPT ![p] = NoHeaders]
  /\ ops' = [ops EXCEPT ![p] = [get |-> "fail", set |-> "none"]]
  /\ CatchError(p)
  /\ UNCHANGED <<now, ticks, redis, max_requests_per_hour>>

GetFail(p, k) == GetFailRow(p, k, max_requests_per_hour[k])

\* Mutant: the first request is counted twice (cold start at maxTokens - 1).
RefilledColdOneLess(p) ==
  IF bucketData[p] # NullText
  THEN LET bucket == JSONparse(bucketData[p])
       IN  [tokens |-> calculateTokens(bucket.tokens, bucket.lastRefillTime,
                                       maxTokens[p], calculateRefillRate(maxTokens[p])),
            lastRefillTime |-> bucket.lastRefillTime]
  ELSE [tokens |-> Scale(maxTokens[p] - 1), lastRefillTime |-> now]

\* Lines 35-51: the refill-adjusted token count and the instants read for it.
Refilled(p) ==
  IF bucketData[p] # NullText
  THEN LET bucket == JSONparse(bucketData[p])
       IN  [tokens |-> calculateTokens(bucket.tokens, bucket.lastRefillTime,
                                       maxTokens[p], calculateRefillRate(maxTokens[p])),
            lastRefillTime |-> bucket.lastRefillTime]
  ELSE [tokens |-> Scale(maxTokens[p]), lastRefillTime |-> now]

\* Mutant: the refreshed bucket is written back on a denial too.
DenyAndPersist(p, tokens) ==
  /\ headers' = [headers EXCEPT ![p] =
       [set |-> {"limit", "remaining", "retryAfter"}, limit |-> maxTokens[p],
        remaining |-> 0, reset |-> 0,
        retryAfter |-> MathCeilDiv(timeUntilNextToken(tokens, maxTokens[p]), 1000)]]
  /\ outcome' = [outcome EXCEPT ![p] = "429"]
  /\ calls' = [calls EXCEPT ![p].json = @ + 1]
  /\ Return(p)
  /\ redis' = RedisSet(apiKey[p], JSONstringify(tokens, now), EX)

\* Mutant: Retry-After carries the milliseconds (the division by 1000 is lost).
DenyRetryMillis(p, tokens) ==
  /\ headers' = [headers EXCEPT ![p] =
       [set |-> {"limit", "remaining", "retryAfter"}, limit |-> maxTokens[p],
        remaining |-> 0, reset |-> 0,
        retryAfter |-> timeUntilNextToken(tokens, calculateRefillRate(maxTokens[p]))]]
  /\ outcome' = [outcome EXCEPT ![p] = "429"]
  /\ calls' = [calls EXCEPT ![p].json = @ + 1]
  /\ Return(p)
  /\ UNCHANGED redis

\* Lines 80-94: the 429 response
Deny(p, tokens) ==
  LET retryAfter == MathCeilDiv(timeUntilNextToken(tokens, calculateRefillRate(maxTokens[p])), 1000)
  IN  /\ headers' = [headers EXCEPT ![p] =
                       [set |-> {"limit", "remaining", "retryAfter"}, limit |-> maxTokens[p],
                        remaining |-> 0, reset |-> 0, retryAfter |-> retryAfter]]
      /\ outcome' = [outcome EXCEPT ![p] = "429"]
      /\ calls' = [calls EXCEPT ![p].json = @ + 1]
      /\ Return(p)
      /\ UNCHANGED redis

\* Lines 37-46 and 78-95 for a reply without the fields: calculateTokens
\* computes with undefined and returns NaN, canProceed(NaN) is false,
\* timeUntilNextToken(NaN, rate) is NaN and so is Math.ceil(NaN / 1000); the
\* 429 response carries Retry-After: NaN.
DenyNaN(p) ==
  /\ headers' = [headers EXCEPT ![p] =
       [set |-> {"limit", "remaining", "retryAfter"}, limit |-> maxTokens[p],
        remaining |-> 0, reset |-> 0, retryAfter |-> "NaN"]]
  /\ outcome' = [outcome EXCEPT ![p] = "429"]
  /\ calls' = [calls EXCEPT ![p].json = @ + 1]
  /\ Return(p)
  /\ UNCHANGED redis

\* Lines 32-57, 78-95 and 96-101: the handler resumes with the reply; a reply
\* JSON.parse rejects takes it to the catch block.
Resume(p) ==
  /\ pc[p] = "resume"
  /\ IF JSONparseThrows(bucketData[p])
     THEN CatchError(p) /\ UNCHANGED <<redis, headers>>
     ELSE IF JSONparseUndefined(bucketData[p])
     THEN DenyNaN(p)
     ELSE LET r == Refilled(p)
          IN  IF canProceed(r.tokens)
              THEN /\ currentTokens' = [currentTokens EXCEPT ![p] = r.tokens]
                   /\ lastRefillTime' = [lastRefillTime EXCEPT ![p] = r.lastRefillTime]
                   /\ calcNow' = [calcNow EXCEPT ![p] = now]
                   /\ newTokenCount' = [newTokenCount EXCEPT ![p] = r.tokens - Scale(1)]
                   /\ pc' = [pc EXCEPT ![p] = "stamp"]
                   /\ UNCHANGED <<redis, bucketData, payload, headers, outcome, calls>>
              ELSE Deny(p, r.tokens)
  /\ UNCHANGED <<now, ticks, max_requests_per_hour, apiKey, maxTokens, ops>>

\* Lines 59-66: the arguments of redisClient.set; Date.now() is read again.
Stamp(p) ==
  /\ pc[p] = "stamp"
  /\ payload' = [payload EXCEPT ![p] = JSONstringify(newTokenCount[p], now)]
  /\ pc' = [pc EXCEPT ![p] = "set"]
  /\ UNCHANGED <<now, ticks, redis, max_requests_per_hour, apiKey, maxTokens, bucketData,
                 lastRefillTime, calcNow, currentTokens, newTokenCount, headers, outcome,
                 calls, ops>>

\* Mutant: the SET is conditional on the entry being the one that was read (a
\* compare-and-set); a stale writer is turned away with 429.
SetIfUnchanged(p) ==
  /\ pc[p] = "set"
  /\ IF RedisGet(apiKey[p]) = bucketData[p]
     THEN /\ redis' = RedisSet(apiKey[p], payload[p], EX)
          /\ ops' = [ops EXCEPT ![p].set = "ok"]
          /\ pc' = [pc EXCEPT ![p] = "respond"]
          /\ UNCHANGED <<now, ticks, max_requests_per_hour, apiKey, maxTokens, bucketData,
                         lastRefillTime, calcNow, currentTokens, newTokenCount, payload,
                         headers, outcome, calls>>
     ELSE /\ ops' = [ops EXCEPT ![p].set = "fail"]
          /\ Deny(p, 0)
          /\ UNCHANGED <<now, ticks, max_requests_per_hour, apiKey, maxTokens>>

\* Lines 59-66: Redis executes the SET.
Set(p) ==
  /\ pc[p] = "set"
  /\ redis' = RedisSet(apiKey[p], payload[p], EX)
  /\ ops' = [ops EXCEPT ![p].set = "ok"]
  /\ pc' = [pc EXCEPT ![p] = "respond"]
  /\ UNCHANGED <<now, ticks, max_requests_per_hour, apiKey, maxTokens, bucketData,
                 lastRefillTime, calcNow, currentTokens, newTokenCount, payload, headers,
                 outcome, calls>>

\* Lines 59-66: the SET is rejected (Redis unreachable); nothing is stored.
SetFail(p) ==
  /\ pc[p] = "set"
  /\ ops' = [ops EXCEPT ![p].set = "fail"]
  /\ CatchError(p)
  /\ UNCHANGED <<now, ticks, redis, max_requests_per_hour, apiKey, maxTokens, headers>>

\* Lines 68-77: headers, then next(); Date.now() is read a third time.
Respond(p) ==
  /\ pc[p] = "respond"
  /\ headers' = [headers EXCEPT ![p] =
       [set |-> {"limit", "remaining", "reset"}, limit |-> maxTokens[p],
        remaining |-> MathFloor(newTokenCount[p]),
        reset |-> now + timeUntilNextToken(newTokenCount[p], calculateRefillRate(maxTokens[p])),
        retryAfter |-> 0]]
  /\ outcome' = [outcome EXCEPT ![p] = "next"]
  /\ calls' = [calls EXCEPT ![p].next = @ + 1]
  /\ Return(p)
  /\ UNCHANGED <<now, ticks, redis, max_requests_per_hour, apiKey, maxTokens, ops>>

(* ------------------------------ environment ---------------------------- *)

\* Redis removes an entry whose time-to-live has elapsed.
Expire(k) ==
  /\ Expired(k)
  /\ redis' = [redis EXCEPT ![k] = NoEntry]
  /\ UNCHANGED <<now, ticks, max_requests_per_hour, pc, locals>>

\* Another client of the Redis instance overwrites the value with a text
\* that is not a bucket (the time-to-live of the key is kept).
Corrupt(k, text) ==
  /\ HasEntry(k)
  /\ redis[k].val # text
  /\ redis' = [redis EXCEPT ![k].val = text]
  /\ UNCHANGED <<now, ticks, max_requests_per_hour, pc, locals>>

Tick(d) ==
  /\ ticks < MaxTicks
  /\ ticks' = ticks + 1
  /\ now' = now + d
  /\ UNCHANGED <<redis, max_requests_per_hour, pc, locals>>

\* The wall clock is set back.
ClockBack(d) ==
  /\ ticks < MaxTicks
  /\ ticks' = ticks + 1
  /\ now - d >= 0
  /\ now' = now - d
  /\ UNCHANGED <<redis, max_requests_per_hour, pc, locals>>

(* ----------------------------- specification --------------------------- *)

\* Concurrent invocations, store failures, expiry, clock movements.
Next ==
  \/ \E p \in Procs, k \in Keys : Get(p, k) /\ UNCHANGED history
  \/ \E p \in Procs, k \in Keys : GetFail(p, k) /\ UNCHANGED history
  \/ \E p \in Procs : Resume(p) /\ UNCHANGED history
  \/ \E p \in Procs : Stamp(p) /\ UNCHANGED history
  \/ \E p \in Procs : Set(p) /\ UNCHANGED history
  \/ \E p \in Procs : SetFail(p) /\ UNCHANGED history
  \/ \E p \in Procs : Respond(p) /\ UNCHANGED history
  \/ \E k \in Keys : Expire(k) /\ UNCHANGED history
  \/ \E d \in Deltas : Tick(d) /\ UNCHANGED history
  \/ \E d \in BackDeltas : ClockBack(d) /\ UNCHANGED history

Spec == Init /\ [][Next]_vars

\* Concurrent invocations, store failures, expiry, the clock moving forward,
\* and a store other clients write to as well.
NextStore ==
  \/ \E p \in Procs, k \in Keys : Get(p, k) /\ UNCHANGED history
  \/ \E p \in Procs, k \in Keys : GetFail(p, k) /\ UNCHANGED history
  \/ \E p \in Procs : Resume(p) /\ UNCHANGED history
  \/ \E p \in Procs : Stamp(p) /\ UNCHANGED history
  \/ \E p \in Procs : Set(p) /\ UNCHANGED history
  \/ \E p \in Procs : SetFail(p) /\ UNCHANGED history
  \/ \E p \in Procs : Respond(p) /\ UNCHANGED history
  \/ \E k \in Keys : Expire(k) /\ UNCHANGED history
  \/ \E d \in Deltas : Tick(d) /\ UNCHANGED history
  \/ \E k \in Keys, text \in {Garbage, EmptyObject} : Corrupt(k, text) /\ UNCHANGED history

SpecStore == Init /\ [][NextStore]_vars

\* Concurrent invocations, store failures, expiry, with a clock that never
\* goes back.
NextForward ==
  \/ \E p \in Procs, k \in Keys : Get(p, k) /\ UNCHANGED history
  \/ \E p \in Procs, k \in Keys : GetFail(p, k) /\ UNCHANGED history
  \/ \E p \in Procs : Resume(p) /\ UNCHANGED history
  \/ \E p \in Procs : Stamp(p) /\ UNCHANGED history
  \/ \E p \in Procs : Set(p) /\ UNCHANGED history
  \/ \E p \in Procs : SetFail(p) /\ UNCHANGED history
  \/ \E p \in Procs : Respond(p) /\ UNCHANGED history
  \/ \E k \in Keys : Expire(k) /\ UNCHANGED history
  \/ \E d \in Deltas : Tick(d) /\ UNCHANGED history

SpecForward == Init /\ [][NextForward]_vars

(* ------------------- the helpers of utils/tokenBucket.js -------------- *)

\* The helpers applied to inputs drawn from the sets above, in the order
\* rateLimiter applies them to a reply: calculateTokens, canProceed,
\* timeUntilNextToken.  The clock stands still.
InitMath ==
  /\ now \in InstantsMath
  /\ ticks = 0
  /\ redis = [k \in Keys |-> NoEntry]
  /\ max_requests_per_hour \in [Keys -> CapacitiesMath]
  /\ pc = [p \in Procs |-> "idle"]
  /\ apiKey = [p \in Procs |-> CHOOSE k \in Keys : TRUE]
  /\ maxTokens = [p \in Procs |-> 0]
  /\ \E s \in TokensMath, l \in InstantsMath :
       bucketData = [p \in Procs |-> IF p = Worker THEN JSONstringify(s, l) ELSE NullText]
  /\ lastRefillTime = [p \in Procs |-> 0]
  /\ calcNow = [p \in Procs |-> 0]
  /\ currentTokens = [p \in Procs |-> 0]
  /\ newTokenCount = [p \in Procs |-> 0]
  /\ payload = [p \in Procs |-> NullText]
  /\ headers = [p \in Procs |-> NoHeaders]
  /\ outcome = [p \in Procs |-> "none"]
  /\ calls = [p \in Procs |-> NoCalls]
  /\ ops = [p \in Procs |-> NoOps]
  /\ burst = [k \in Keys |-> 0]
  /\ ord = [p \in Procs |-> 0]
  /\ zeroRetry = [k \in Keys |-> -1]
  /\ inZero = [p \in Procs |-> FALSE]
  /\ hourStart = [k \in Keys |-> 0]
  /\ hourCount = [k \in Keys |-> 0]
  /\ held = [k \in Keys |-> -1]
  /\ retryAt = [k \in Keys |-> -1]
  /\ api_keys = Keys
  /\ is_active = [k \in Keys |-> TRUE]
  /\ InitRequests

\* Lines 26-27 and 37-46: calculateTokens on the parsed reply.
MathCalculateTokens(p) ==
  /\ pc[p] = "idle"
  /\ LET bucket == JSONparse(bucketData[p])
         maxTok == max_requests_per_hour[apiKey[p]]
     IN  /\ maxTokens' = [maxTokens EXCEPT ![p] = maxTok]
         /\ lastRefillTime' = [lastRefillTime EXCEPT ![p] = bucket.lastRefillTime]
         /\ calcNow' = [calcNow EXCEPT ![p] = now]
         /\ currentTokens' = [currentTokens EXCEPT ![p] =
              calculateTokens(bucket.tokens, bucket.lastRefillTime, maxTok,
                              calculateRefillRate(maxTok))]
  /\ pc' = [pc EXCEPT ![p] = "calculated"]
  /\ UNCHANGED <<now, ticks, redis, max_requests_per_hour, apiKey, bucketData, newTokenCount,
                 payload, headers, outcome, calls, ops>>

\* Line 54: canProceed(currentTokens); the result is kept in outcome.
MathCanProceed(p) ==
  /\ pc[p] = "calculated"
  /\ outcome' = [outcome EXCEPT ![p] = IF canProceed(currentTokens[p]) THEN "next" ELSE "429"]
  /\ pc' = [pc EXCEPT ![p] = "admitted"]
  /\ UNCHANGED <<now, ticks, redis, max_requests_per_hour, apiKey, maxTokens, bucketData,
                 lastRefillTime, calcNow, currentTokens, newTokenCount, payload, headers,
                 calls, ops>>

\* Lines 73 and 81: timeUntilNextToken(currentTokens, refillRate); the result
\* (milliseconds) is kept in headers.reset.
MathTimeUntilNextToken(p) ==
  /\ pc[p] = "admitted"
  /\ headers' = [headers EXCEPT ![p] =
       [NoHeaders EXCEPT !.set = {"reset"},
                         !.reset = timeUntilNextToken(currentTokens[p],
                                                      calculateRefillRate(maxTokens[p]))]]
  /\ pc' = [pc EXCEPT ![p] = "timed"]
  /\ UNCHANGED <<now, ticks, redis, max_requests_per_hour, apiKey, maxTokens, bucketData,
                 lastRefillTime, calcNow, currentTokens, newTokenCount, payload, outcome,
                 calls, ops>>

\* The clock moves on after a refill was computed.
MathTick(p, d) ==
  /\ pc[p] = "calculated"
  /\ now' = now + d
  /\ pc' = [pc EXCEPT ![p] = "later"]
  /\ UNCHANGED <<ticks, redis, max_requests_per_hour, locals>>

\* Lines 41-46 again: calculateTokens on the count computed before and the
\* instant it was computed for; the result is kept in newTokenCount.
MathCalculateAgain(p) ==
  /\ pc[p] = "later"
  /\ newTokenCount' = [newTokenCount EXCEPT ![p] =
       calculateTokens(currentTokens[p], calcNow[p], maxTokens[p],
                       calculateRefillRate(maxTokens[p]))]
  /\ pc' = [pc EXCEPT ![p] = "recalculated"]
  /\ UNCHANGED <<now, ticks, redis, max_requests_per_hour, apiKey, maxTokens, bucketData,
                 lastRefillTime, calcNow, currentTokens, payload, headers, outcome,
                 calls, ops>>

NextMath ==
  \/ MathCalculateTokens(Worker) /\ UNCHANGED history
  \/ \E d \in DeltasMath : MathTick(Worker, d) /\ UNCHANGED history
  \/ MathCalculateAgain(Worker) /\ UNCHANGED history
  \/ MathCanProceed(Worker) /\ UNCHANGED history
  \/ MathTimeUntilNextToken(Worker) /\ UNCHANGED history

SpecMath == InitMath /\ [][NextMath]_vars

(* ------------------------ counting allowed checks ---------------------- *)

\* History: an allowed check at the instant now is counted in the hour that
\* began with the first allowed check counted, if it falls in it; otherwise
\* a new hour begins with it.
CountAllowed(k) ==
  IF hourCount[k] > 0 /\ now >= hourStart[k] /\ now - hourStart[k] < HOUR_IN_MS
  THEN /\ hourCount' = [hourCount EXCEPT ![k] = @ + 1]
       /\ UNCHANGED hourStart
  ELSE /\ hourCount' = [hourCount EXCEPT ![k] = 1]
       /\ hourStart' = [hourStart EXCEPT ![k] = now]

\* Lines 68-77, with the history of allowed checks.
CountedRespond(p) == Respond(p) /\ CountAllowed(apiKey[p])

\* No invocation is under way.
Quiet == \A p \in Procs : pc[p] \in {"idle", "done"}

\* Whole tokens the bucket of k holds at this instant: the capacity when there
\* is no entry, else the floor of the refill-adjusted stored count.
WholeTokens(k) ==
  IF RedisGet(k) = NullText THEN max_requests_per_hour[k]
  ELSE LET bucket == JSONparse(RedisGet(k))
       IN  MathFloor(calculateTokens(bucket.tokens, bucket.lastRefillTime,
                                     max_requests_per_hour[k],
                                     calculateRefillRate(max_requests_per_hour[k])))

\* Lines 16-30; history: a request that arrives while no invocation is under
\* way begins a new count of overlapping invocations.
RaceGet(p, k) ==
  /\ Get(p, k)
  /\ IF Quiet
     THEN /\ held' = [held EXCEPT ![k] = WholeTokens(k)]
          /\ hourCount' = [hourCount EXCEPT ![k] = 0]
          /\ hourStart' = [hourStart EXCEPT ![k] = now]
     ELSE UNCHANGED <<hourvars, held>>
  /\ UNCHANGED <<seqvars, retryAt, appvars>>

\* Concurrent invocations at one instant, the store answering every command.
NextRace ==
  \/ \E p \in Procs, k \in Keys : RaceGet(p, k)
  \/ \E p \in Procs : Resume(p) /\ UNCHANGED history
  \/ \E p \in Procs : Stamp(p) /\ UNCHANGED history
  \/ \E p \in Procs : Set(p) /\ UNCHANGED history
  \/ \E p \in Procs : CountedRespond(p) /\ UNCHANGED <<seqvars, held, retryAt, appvars>>

InitRace == InitWith(CapacitiesRace)

SpecRace == InitRace /\ [][NextRace]_vars

(* ----------------- sequential checks with their history ---------------- *)

\* No two invocations overlap.
Sequential(p) == p = Worker /\ \A q \in Procs \ {p} : pc[q] \in {"idle", "done"}

EndRuns ==
  /\ burst' = [k \in Keys |-> 0]
  /\ ord' = [p \in Procs |-> 0]
  /\ zeroRetry' = [k \in Keys |-> -1]
  /\ inZero' = [p \in Procs |-> FALSE]

\* A check that finds no entry starts a run; a later check at the same instant
\* continues it, as long as the run is followed.
SeqGet(p, k) ==
  /\ Sequential(p)
  /\ Get(p, k)
  /\ LET n == IF RedisGet(k) = NullText THEN 1
              ELSE IF burst[k] > 0 THEN burst[k] + 1 ELSE 0
         m == IF n > max_requests_per_hour[k] + MaxExtra THEN 0 ELSE n
     IN  /\ burst' = [burst EXCEPT ![k] = m]
         /\ ord' = [ord EXCEPT ![p] = m]
  /\ inZero' = [inZero EXCEPT ![p] = zeroRetry[k] >= 0]
  /\ UNCHANGED zeroRetry

\* A store failure ends the run of the key: the scenario is over.
SeqGetFail(p, k) ==
  /\ Sequential(p)
  /\ GetFail(p, k)
  /\ burst' = [burst EXCEPT ![k] = 0]
  /\ ord' = [q \in Procs |-> IF q = p \/ apiKey[q] = k THEN 0 ELSE ord[q]]
  /\ inZero' = [inZero EXCEPT ![p] = FALSE]
  /\ UNCHANGED zeroRetry

SeqResume(p) ==
  /\ Resume(p)
  /\ zeroRetry' =
       IF outcome'[p] = "429" /\ inZero[p] /\ zeroRetry[apiKey[p]] = 0
       THEN [zeroRetry EXCEPT ![apiKey[p]] = headers'[p].retryAfter]
       ELSE zeroRetry
  /\ UNCHANGED <<burst, ord, inZero>>

\* A write of exactly 0 tokens, executed at the instant it is stamped with,
\* begins the denial period of the key.
SeqSet(p) ==
  /\ Set(p)
  /\ zeroRetry' = [zeroRetry EXCEPT ![apiKey[p]] =
       IF newTokenCount[p] = 0 /\ JSONparse(payload[p]).lastRefillTime = now
       THEN 0 ELSE -1]
  /\ inZero' = [q \in Procs |-> IF apiKey[q] = apiKey[p] THEN FALSE ELSE inZero[q]]
  /\ UNCHANGED <<burst, ord>>

SeqSetFail(p) ==
  /\ SetFail(p)
  /\ burst' = [burst EXCEPT ![apiKey[p]] = 0]
  /\ ord' = [q \in Procs |-> IF apiKey[q] = apiKey[p] THEN 0 ELSE ord[q]]
  /\ UNCHANGED <<zeroRetry, inZero>>

NextSeq ==
  \/ \E p \in Procs, k \in Keys : SeqGet(p, k) /\ UNCHANGED <<hourvars, held, retryAt, appvars>>
  \/ \E p \in Procs, k \in Keys : SeqGetFail(p, k) /\ UNCHANGED <<hourvars, held, retryAt, appvars>>
  \/ \E p \in Procs : SeqResume(p) /\ UNCHANGED <<hourvars, held, retryAt, appvars>>
  \/ \E p \in Procs : Stamp(p) /\ UNCHANGED history
  \/ \E p \in Procs : SeqSet(p) /\ UNCHANGED <<hourvars, held, retryAt, appvars>>
  \/ \E p \in Procs : SeqSetFail(p) /\ UNCHANGED <<hourvars, held, retryAt, appvars>>
  \/ \E p \in Procs : Respond(p) /\ UNCHANGED history
  \/ \E k \in Keys : Expire(k) /\ UNCHANGED history
  \/ \E d \in DeltasSeq : Tick(d) /\ EndRuns /\ UNCHANGED <<hourvars, held, retryAt, appvars>>
  \/ \E d \in DeltasSeq : ClockBack(d) /\ EndRuns /\ UNCHANGED <<hourvars, held, retryAt, appvars>>

SpecSeq == InitSeq /\ [][NextSeq]_vars

\* Sequential checks, the store answering every command, the clock moving
\* forward between two checks (each check is made at one instant), with the
\* count of allowed checks.
NextHour ==
  \/ \E p \in Procs, k \in Keys :
       Sequential(p) /\ Get(p, k) /\ UNCHANGED history
  \/ \E p \in Procs : Resume(p) /\ UNCHANGED history
  \/ \E p \in Procs : Stamp(p) /\ UNCHANGED history
  \/ \E p \in Procs : Set(p) /\ UNCHANGED history
  \/ \E p \in Procs : CountedRespond(p) /\ UNCHANGED <<seqvars, held, retryAt, appvars>>
  \/ \E k \in Keys : Expire(k) /\ UNCHANGED history
  \/ \E d \in DeltasSeq :
       Quiet /\ Tick(d) /\ UNCHANGED history

SpecHour == InitSeq /\ [][NextHour]_vars

(* ------------------- the middleware chain and the admin routes ---------- *)

\* At most MaxRequests requests are received.
MaxRequests == 3

\* Values of the x-api-key header.
Credentials == Keys \cup {NoHeader, UnknownKey}

\* routes/admin.js: tierLimits, with TIER_FREE, TIER_PRO and TIER_ENTERPRISE unset.
tierLimits == [free |-> 100, pro |-> 1000, enterprise |-> 10000]

\* Bodies sent to the admin routes: tier, and max_requests_per_hour.
TiersIn == {"", "free", "gold"}

QuotasIn == {-1, 0, 1}

hist == <<seqvars, hourvars, held, retryAt>>

table == <<max_requests_per_hour, api_keys, is_active>>

\* Mutant: the lookup does not look at is_active.
findByKeyAny(key) ==
  IF key \in api_keys
  THEN [key |-> key, max_requests_per_hour |-> max_requests_per_hour[key]]
  ELSE NoRow

\* apiKey.findByKey: SELECT * FROM api_keys WHERE key = $1 AND is_active = true
findByKey(key) ==
  IF key \in api_keys /\ is_active[key]
  THEN [key |-> key, max_requests_per_hour |-> max_requests_per_hour[key]]
  ELSE NoRow

\* server.js: a request with x-api-key = c arrives; the logging middleware
\* registers its finish handler and calls next().  The requests go through
\* the chain one at a time, p being the Worker for every other request.
Arrive(p, c) ==
  /\ requests < MaxRequests
  /\ (p = Worker) <=> (requests % 2 = 0)
  /\ \A q \in Procs : stage[q] \in {"none", "finished"}
  /\ requestLog[p].state # "pending"
  /\ requests' = requests + 1
  /\ stage' = [stage EXCEPT ![p] = "auth"]
  /\ x_api_key' = [x_api_key EXCEPT ![p] = c]
  /\ req_apiKey' = [req_apiKey EXCEPT ![p] = NoRow]
  /\ statusCode' = [statusCode EXCEPT ![p] = 0]
  /\ requestLog' = [requestLog EXCEPT ![p] = NoLog]
  /\ pc' = [pc EXCEPT ![p] = "idle"]
  /\ headers' = [headers EXCEPT ![p] = NoHeaders]
  /\ outcome' = [outcome EXCEPT ![p] = "none"]
  /\ calls' = [calls EXCEPT ![p] = NoCalls]
  /\ ops' = [ops EXCEPT ![p] = NoOps]
  /\ UNCHANGED <<now, ticks, redis, table, adminStatus, hist, apiKey, maxTokens,
                 bucketData, lastRefillTime, calcNow, currentTokens, newTokenCount,
                 payload>>

\* apiKeyAuth answers itself; the finish handler finds no req.apiKey and
\* writes no log.
Reject(p, code) ==
  /\ stage' = [stage EXCEPT ![p] = "finished"]
  /\ statusCode' = [statusCode EXCEPT ![p] = code]
  /\ UNCHANGED <<now, ticks, redis, table, pc, locals, hist, x_api_key, req_apiKey,
                 requestLog, adminStatus, requests>>

\* apiKeyAuth, lines 11-18: no x-api-key header
AuthMissing(p) ==
  /\ stage[p] = "auth"
  /\ x_api_key[p] = NoHeader
  /\ Reject(p, 401)

\* apiKeyAuth, lines 21-28: findByKey finds no active row
AuthUnresolved(p) ==
  /\ stage[p] = "auth"
  /\ x_api_key[p] # NoHeader
  /\ findByKey(x_api_key[p]) = NoRow
  /\ Reject(p, 401)

\* apiKeyAuth, lines 35-41: the lookup throws
AuthError(p) ==
  /\ stage[p] = "auth"
  /\ x_api_key[p] # NoHeader
  /\ Reject(p, 500)

\* apiKeyAuth, lines 30-34: req.apiKey = keyData; next()
AuthPass(p) ==
  /\ stage[p] = "auth"
  /\ x_api_key[p] # NoHeader
  /\ findByKey(x_api_key[p]) # NoRow
  /\ req_apiKey' = [req_apiKey EXCEPT ![p] = findByKey(x_api_key[p])]
  /\ stage' = [stage EXCEPT ![p] = "limit"]
  /\ UNCHANGED <<now, ticks, redis, table, pc, locals, hist, x_api_key, statusCode,
                 requestLog, adminStatus, requests>>

\* routes/api.js: rateLimiter runs next, on the row apiKeyAuth attached.
LimitGet(p) ==
  /\ stage[p] = "limit"
  /\ GetRow(p, req_apiKey[p].key, req_apiKey[p].max_requests_per_hour)
  /\ stage' = [stage EXCEPT ![p] = "limiter"]
  /\ UNCHANGED <<api_keys, is_active, hist, x_api_key, req_apiKey, statusCode,
                 requestLog, adminStatus, requests>>

LimitGetFail(p) ==
  /\ stage[p] = "limit"
  /\ GetFailRow(p, req_apiKey[p].key, req_apiKey[p].max_requests_per_hour)
  /\ stage' = [stage EXCEPT ![p] = "limiter"]
  /\ UNCHANGED <<api_keys, is_active, hist, x_api_key, req_apiKey, statusCode,
                 requestLog, adminStatus, requests>>

\* Mutant: only successful responses are logged.
FinishLogOk(p, code) ==
  /\ stage' = [stage EXCEPT ![p] = "finished"]
  /\ statusCode' = [statusCode EXCEPT ![p] = code]
  /\ requestLog' = [requestLog EXCEPT ![p] =
                      IF code < 400 THEN [state |-> "pending", status_code |-> code] ELSE NoLog]
  /\ UNCHANGED <<now, ticks, redis, table, pc, locals, hist, x_api_key, req_apiKey,
                 adminStatus, requests>>

\* server.js, lines 31-51: the response has finished and req.apiKey is set;
\* the handler of 'finish' calls requestLogModel.create with res.statusCode.
Finish(p, code) ==
  /\ stage' = [stage EXCEPT ![p] = "finished"]
  /\ statusCode' = [statusCode EXCEPT ![p] = code]
  /\ requestLog' = [requestLog EXCEPT ![p] = [state |-> "pending", status_code |-> code]]
  /\ UNCHANGED <<now, ticks, redis, table, pc, locals, hist, x_api_key, req_apiKey,
                 adminStatus, requests>>

\* rateLimiter called next(): the route handler answers 200.
Handler(p) ==
  /\ stage[p] = "limiter"
  /\ pc[p] = "done"
  /\ outcome[p] = "next"
  /\ Finish(p, 200)

\* rateLimiter answered 429 itself.
Finish429(p) ==
  /\ stage[p] = "limiter"
  /\ pc[p] = "done"
  /\ outcome[p] = "429"
  /\ Finish(p, 429)

\* requestLog.create: the INSERT INTO request_logs is executed.
LogCreate(p) ==
  /\ requestLog[p].state = "pending"
  /\ requestLog' = [requestLog EXCEPT ![p].state = "written"]
  /\ UNCHANGED <<now, ticks, redis, table, pc, locals, hist, stage, x_api_key,
                 req_apiKey, statusCode, adminStatus, requests>>

\* Mutant: a failed log write is reported to the client as an error.
LogCreateFailThrows(p) ==
  /\ requestLog[p].state = "pending"
  /\ requestLog' = [requestLog EXCEPT ![p].state = "failed"]
  /\ statusCode' = [statusCode EXCEPT ![p] = 500]
  /\ UNCHANGED <<now, ticks, redis, table, pc, locals, hist, stage, x_api_key,
                 req_apiKey, adminStatus, requests>>

\* server.js, lines 48-50: the INSERT fails; the error is logged to the console.
LogCreateFail(p) ==
  /\ requestLog[p].state = "pending"
  /\ requestLog' = [requestLog EXCEPT ![p].state = "failed"]
  /\ UNCHANGED <<now, ticks, redis, table, pc, locals, hist, stage, x_api_key,
                 req_apiKey, statusCode, adminStatus, requests>>

\* POST /admin/keys: a row with a fresh key, its quota taken from tierLimits.
CreateKey(k, tier) ==
  /\ k \notin api_keys
  /\ IF tier \notin {"free", "pro", "enterprise"}
     THEN /\ adminStatus' = 400
          /\ UNCHANGED table
     ELSE /\ adminStatus' = 201
          /\ api_keys' = api_keys \cup {k}
          /\ is_active' = [is_active EXCEPT ![k] = TRUE]
          /\ max_requests_per_hour' = [max_requests_per_hour EXCEPT ![k] = tierLimits[tier]]
  /\ UNCHANGED <<now, ticks, redis, pc, locals, hist, stage, x_api_key, req_apiKey,
                 statusCode, requestLog, requests>>

\* Mutant: the quota of the body is validated.
UpdateTierValidated(k, tier, m) ==
  /\ IF tier = "" \/ m <= 0
     THEN /\ adminStatus' = 400
          /\ UNCHANGED table
     ELSE IF k \notin api_keys
     THEN /\ adminStatus' = 404
          /\ UNCHANGED table
     ELSE /\ adminStatus' = 200
          /\ max_requests_per_hour' = [max_requests_per_hour EXCEPT ![k] = m]
          /\ UNCHANGED <<api_keys, is_active>>
  /\ UNCHANGED <<now, ticks, redis, pc, locals, hist, stage, x_api_key, req_apiKey,
                 statusCode, requestLog, requests>>

\* Mutant: the UPDATE of updateTier also sets is_active = true.
UpdateTierReactivates(k, tier, m) ==
  /\ IF tier = "" \/ m = 0
     THEN /\ adminStatus' = 400
          /\ UNCHANGED table
     ELSE IF k \notin api_keys
     THEN /\ adminStatus' = 404
          /\ UNCHANGED table
     ELSE /\ adminStatus' = 200
          /\ max_requests_per_hour' = [max_requests_per_hour EXCEPT ![k] = m]
          /\ is_active' = [is_active EXCEPT ![k] = TRUE]
          /\ UNCHANGED api_keys
  /\ UNCHANGED <<now, ticks, redis, pc, locals, hist, stage, x_api_key, req_apiKey,
                 statusCode, requestLog, requests>>

\* PATCH /admin/keys/:id/tier with the body {tier, max_requests_per_hour: m}
UpdateTier(k, tier, m) ==
  /\ IF tier = "" \/ m = 0
     THEN /\ adminStatus' = 400
          /\ UNCHANGED table
     ELSE IF k \notin api_keys
     THEN /\ adminStatus' = 404
          /\ UNCHANGED table
     ELSE /\ adminStatus' = 200
          /\ max_requests_per_hour' = [max_requests_per_hour EXCEPT ![k] = m]
          /\ UNCHANGED <<api_keys, is_active>>
  /\ UNCHANGED <<now, ticks, redis, pc, locals, hist, stage, x_api_key, req_apiKey,
                 statusCode, requestLog, requests>>

\* DELETE /admin/keys/:id
Deactivate(k) ==
  /\ IF k \notin api_keys
     THEN /\ adminStatus' = 404
          /\ UNCHANGED table
     ELSE /\ adminStatus' = 200
          /\ is_active' = [is_active EXCEPT ![k] = FALSE]
          /\ UNCHANGED <<max_requests_per_hour, api_keys>>
  /\ UNCHANGED <<now, ticks, redis, pc, locals, hist, stage, x_api_key, req_apiKey,
                 statusCode, requestLog, requests>>

\* The table holds the free-tier seed row of the key, or no row yet.
InitApp ==
  /\ now = 0
  /\ ticks = 0
  /\ redis = [k \in Keys |-> NoEntry]
  /\ api_keys \in SUBSET Keys
  /\ max_requests_per_hour = [k \in Keys |-> IF k \in api_keys THEN tierLimits.free ELSE 0]
  /\ is_active = [k \in Keys |-> TRUE]
  /\ InitLocals

\* Requests one after the other at one instant, with the admin routes and
\* the log writes in between.
NextApp ==
  \/ \E p \in Procs, c \in Credentials : Arrive(p, c)
  \/ \E p \in Procs : AuthMissing(p)
  \/ \E p \in Procs : AuthUnresolved(p)
  \/ \E p \in Procs : AuthError(p)
  \/ \E p \in Procs : AuthPass(p)
  \/ \E p \in Procs : LimitGet(p)
  \/ \E p \in Procs : LimitGetFail(p)
  \/ \E p \in Procs : Resume(p) /\ UNCHANGED history
  \/ \E p \in Procs : Stamp(p) /\ UNCHANGED history
  \/ \E p \in Procs : Set(p) /\ UNCHANGED history
  \/ \E p \in Procs : SetFail(p) /\ UNCHANGED history
  \/ \E p \in Procs : Respond(p) /\ UNCHANGED history
  \/ \E p \in Procs : Handler(p)
  \/ \E p \in Procs : Finish429(p)
  \/ \E p \in Procs : LogCreate(p)
  \/ \E p \in Procs : LogCreateFail(p)
  \/ \E k \in Keys, tier \in TiersIn : CreateKey(k, tier)
  \/ \E k \in Keys, tier \in TiersIn, m \in QuotasIn : UpdateTier(k, tier, m)
  \/ \E k \in Keys : Deactivate(k)

SpecApp == InitApp /\ [][NextApp]_vars

(* -------------------------------- claims ------------------------------- *)

Stored(k) == JSONparse(redis[k].val)

\* The invocation p took a step of its own.
Acted(p) ==
  <<pc[p], ops[p], outcome[p], headers[p], apiKey[p]>>' #
  <<pc[p], ops[p], outcome[p], headers[p], apiKey[p]>>

\* The refill the stored count would get at the instant p read the clock,
\* before the cap (in units of 1/HOUR_IN_MS token).
RawRefill(p) ==
  LET b == JSONparse(bucketData[p])
  IN  b.tokens + (calcNow[p] - b.lastRefillTime) * maxTokens[p]

\* C1: with the capacity of a principal fixed, the token count stored in its
\* bucket entry is at most the capacity in every reachable state, whatever the
\* interleaving of invocations, expiries and clock movements.
C1_StoredAtMostCapacity ==
  \A k \in Keys : HasEntry(k) => Stored(k).tokens <= Scale(max_requests_per_hour[k])

\* A refill that would have passed the capacity was capped, and its write is stored.
C1_Witness ==
  \E p \in Procs :
    /\ pc[p] = "respond"
    /\ bucketData[p] # NullText
    /\ RawRefill(p) > Scale(maxTokens[p])
    /\ currentTokens[p] = Scale(maxTokens[p])
    /\ redis[apiKey[p]].val = payload[p]

\* C2: the stored token count is never negative: a write is prepared only when
\* the refill-adjusted count is at least one token, also after the clock moved
\* backward.
C2_StoredNonNegative ==
  /\ \A k \in Keys : HasEntry(k) => Stored(k).tokens >= 0
  /\ \A p \in Procs : pc[p] \in {"stamp", "set", "respond"} =>
       /\ currentTokens[p] >= Scale(1)
       /\ newTokenCount[p] >= 0
  /\ \A p \in Procs : pc[p] \in {"set", "respond"} => JSONparse(payload[p]).tokens >= 0

\* A check made with the clock behind the stored lastRefillTime computed a
\* negative count (its Retry-After is longer than one whole token takes), was
\* denied, and the entry is still there.
C2_Witness ==
  \E p \in Procs :
    /\ pc[p] = "done"
    /\ outcome[p] = "429"
    /\ HasEntry(apiKey[p])
    /\ Stored(apiKey[p]).lastRefillTime > now
    /\ headers[p].retryAfter >
         MathCeilDiv(MathCeilDiv(Scale(1), maxTokens[p]), 1000)

\* C3: a denied check leaves the store as it was (tokens, lastRefillTime and
\* expiry deadline of every entry) and issues no write.
C3_DenyStep ==
  \A p \in Procs :
    (pc[p] = "resume" /\ outcome'[p] = "429") =>
      /\ redis' = redis
      /\ pc'[p] = "done"
      /\ ops'[p].set = "none"

C3_DenyLeavesStore == [][C3_DenyStep]_vars

C3_Witness ==
  \E p \in Procs :
    /\ pc[p] = "done"
    /\ outcome[p] = "429"
    /\ ops[p] = [get |-> "hit", set |-> "none"]
    /\ HasEntry(apiKey[p])

\* C4: on an allowed check the stored record is {tokens: T - 1,
\* lastRefillTime: now}, with a time-to-live of 3600 s, where now is the
\* instant the refill-adjusted count T was computed at (for a check that read
\* an entry: the instant calculateTokens read the clock).
C4_Step ==
  \A p \in Procs :
    (pc[p] = "set" /\ pc'[p] = "respond") =>
      /\ Stored(apiKey[p])'.tokens = currentTokens[p] - Scale(1)
      /\ redis'[apiKey[p]].expireAt = now + 3600 * 1000
      /\ bucketData[p] # NullText => Stored(apiKey[p])'.lastRefillTime = calcNow[p]

C4_RecordAtCreditedInstant == [][C4_Step]_vars

\* C5: a check that finds no entry for its principal (never seen, or expired)
\* is allowed on every path; on the token path (its SET is executed, lines
\* 47-77) it stores capacity - 1 tokens and reports remaining = capacity - 1
\* and limit = capacity.
C5_State ==
  \A p \in Procs :
    /\ (pc[p] = "done" /\ ops[p].get = "null") =>
         /\ outcome[p] = "next"
         /\ ops[p].set = "ok" =>
              /\ {"limit", "remaining"} \subseteq headers[p].set
              /\ headers[p].remaining = maxTokens[p] - 1
              /\ headers[p].limit = maxTokens[p]
    /\ (pc[p] \in {"set", "respond"} /\ ops[p].get = "null") =>
         JSONparse(payload[p]).tokens = Scale(maxTokens[p] - 1)

C5_Step ==
  \A p \in Procs :
    (pc[p] = "set" /\ pc'[p] = "respond" /\ ops[p].get = "null") =>
      Stored(apiKey[p])'.tokens = Scale(maxTokens[p] - 1)

C5_ColdStart == []C5_State /\ [][C5_Step]_vars

\* The entry had expired (the clock is an hour or more past the start), the
\* check was allowed as a cold start and its record is the stored one.
C5_Witness ==
  \E p \in Procs :
    /\ pc[p] = "done"
    /\ ops[p] = [get |-> "null", set |-> "ok"]
    /\ outcome[p] = "next"
    /\ headers[p].remaining = maxTokens[p] - 1
    /\ now >= HOUR_IN_MS
    /\ HasEntry(apiKey[p])
    /\ Stored(apiKey[p]).tokens = Scale(maxTokens[p] - 1)
    /\ Stored(apiKey[p]).lastRefillTime = now

\* C6: from no entry, sequential checks at one instant with the store
\* reachable: check n is allowed with remaining = capacity - n for n up to the
\* capacity, and denied after that; with capacity 100 the denial carries
\* Retry-After 36.
C6_BurstExhaustion ==
  \A p \in Procs :
    (pc[p] = "done" /\ ord[p] > 0) =>
      IF ord[p] <= maxTokens[p]
      THEN /\ outcome[p] = "next"
           /\ "remaining" \in headers[p].set
           /\ headers[p].remaining = maxTokens[p] - ord[p]
      ELSE /\ outcome[p] = "429"
           /\ "retryAfter" \in headers[p].set
           /\ maxTokens[p] = 100 => headers[p].retryAfter = 36

C6_Witness ==
  \E p \in Procs :
    /\ pc[p] = "done"
    /\ maxTokens[p] = 100
    /\ ord[p] = 101
    /\ outcome[p] = "429"
    /\ headers[p].retryAfter = 36

\* C7: once 0 tokens have been stored for a principal, every further
\* sequential check whose read is answered while the clock stands still is
\* denied, with the Retry-After of the first of these denials.
C7_MonotonicDenial ==
  \A p \in Procs :
    inZero[p] =>
      /\ pc[p] \in {"resume", "done"}
      /\ pc[p] = "done" =>
           /\ outcome[p] = "429"
           /\ headers[p].retryAfter = zeroRetry[apiKey[p]]
           /\ headers[p].retryAfter >= 1

\* The second denial of a run that emptied the bucket.
C7_Witness ==
  \E p \in Procs :
    /\ pc[p] = "done"
    /\ inZero[p]
    /\ outcome[p] = "429"
    /\ ord[p] = maxTokens[p] + 2
    /\ zeroRetry[apiKey[p]] = headers[p].retryAfter

\* C8: a check that reads an entry is allowed exactly when stored tokens +
\* elapsed * rate is at least one token; it stores what is left after taking
\* one and reports its floor.  With capacity 100, 0 tokens stored and 60000 ms
\* elapsed it computes 5/3 token (1.67), stores 2/3 (0.67), reports 0.
C8_HourScenario(p) ==
  /\ maxTokens[p] = 100
  /\ bucketData[p] # NullText
  /\ JSONparse(bucketData[p]).tokens = 0

C8_ResumeStep ==
  \A p \in Procs :
    (pc[p] = "resume" /\ Acted(p) /\ bucketData[p] # NullText) =>
      LET b == JSONparse(bucketData[p])
          raw == b.tokens + (now - b.lastRefillTime) * maxTokens[p]
      IN  /\ pc'[p] = "stamp" <=> raw >= Scale(1)
          /\ pc'[p] = "stamp" => newTokenCount'[p] = Min(raw, Scale(maxTokens[p])) - Scale(1)
          /\ (C8_HourScenario(p) /\ now - b.lastRefillTime = 60000) =>
               /\ pc'[p] = "stamp"
               /\ 3 * currentTokens'[p] = 5 * Scale(1)
               /\ 3 * newTokenCount'[p] = 2 * Scale(1)

C8_State ==
  \A p \in Procs :
    /\ pc[p] \in {"set", "respond"} => JSONparse(payload[p]).tokens = newTokenCount[p]
    /\ (pc[p] = "done" /\ ops[p].set = "ok") => "remaining" \in headers[p].set

C8_RespondStep ==
  \A p \in Procs :
    (pc[p] = "respond" /\ Acted(p)) =>
      /\ headers'[p].remaining * Scale(1) <= newTokenCount[p]
      /\ newTokenCount[p] < (headers'[p].remaining + 1) * Scale(1)
      /\ (C8_HourScenario(p) /\ calcNow[p] - lastRefillTime[p] = 60000) =>
           headers'[p].remaining = 0

C8_RefillAfterExhaustion ==
  /\ []C8_State
  /\ [][C8_ResumeStep /\ C8_RespondStep]_vars

C8_Witness ==
  \E p \in Procs :
    /\ pc[p] = "respond"
    /\ C8_HourScenario(p)
    /\ calcNow[p] - lastRefillTime[p] = 60000
    /\ 3 * currentTokens[p] = 5 * Scale(1)
    /\ HasEntry(apiKey[p])
    /\ 3 * Stored(apiKey[p]).tokens = 2 * Scale(1)

\* C9: when the GET fails the request is allowed (next() is called), no SET is
\* issued, and the stored buckets are unchanged.
C9_State ==
  \A p \in Procs :
    ops[p].get = "fail" =>
      /\ pc[p] = "done"
      /\ outcome[p] = "next"
      /\ ops[p].set = "none"

C9_Step ==
  \A p \in Procs : (Acted(p) /\ ops'[p].get = "fail") => redis' = redis

C9_FailOpenOnRead == []C9_State /\ [][C9_Step]_vars

C9_Witness ==
  \E p \in Procs :
    /\ pc[p] = "done"
    /\ ops[p] = [get |-> "fail", set |-> "none"]
    /\ outcome[p] = "next"
    /\ HasEntry(apiKey[p])

\* C10: when the GET was answered, the check allowed, and the SET fails, the
\* request is still allowed (next() is called, no error response) and the
\* stored buckets are what they were before the SET.
C10_State ==
  \A p \in Procs :
    ops[p].set = "fail" =>
      /\ pc[p] = "done"
      /\ outcome[p] = "next"
      /\ ops[p].get \in {"null", "hit"}

C10_Step ==
  \A p \in Procs : (pc[p] = "set" /\ pc'[p] = "done") => redis' = redis

C10_FailOpenOnWrite == []C10_State /\ [][C10_Step]_vars

C10_Witness ==
  \E p \in Procs :
    /\ pc[p] = "done"
    /\ ops[p] = [get |-> "hit", set |-> "fail"]
    /\ outcome[p] = "next"
    /\ HasEntry(apiKey[p])

\* The invocation p failed open in this step: its GET or its SET was rejected
\* and the catch block let the request through.
FailsOpen(p) ==
  /\ Acted(p)
  /\ pc'[p] = "done"
  /\ outcome'[p] = "next"
  /\ "fail" \in {ops'[p].get, ops'[p].set}

\* C11: a fail-open decision caused by a store failure carries quota metadata:
\* remaining = capacity - 1, limit = capacity and a reset estimate of now plus
\* the window (one hour).
C11_Step ==
  \A p \in Procs :
    FailsOpen(p) =>
      /\ {"limit", "remaining", "reset"} \subseteq headers'[p].set
      /\ headers'[p].limit = maxTokens'[p]
      /\ headers'[p].remaining = maxTokens'[p] - 1
      /\ headers'[p].reset = now + HOUR_IN_MS

C11_FailOpenMetadata == [][C11_Step]_vars

\* C12: for a resolved principal every rateLimiter invocation ends in exactly
\* one outcome: next() called once and no response sent (allowed), or one 429
\* response and no next() (denied); never both, never an error response,
\* whatever GETs and SETs are rejected and whatever unparsable value is stored.
\* Until it ends the invocation has called neither.
C12_ExactlyOneOutcome ==
  \A p \in Procs :
    /\ pc[p] = "done" =>
         \/ outcome[p] = "next" /\ calls[p] = [next |-> 1, json |-> 0]
         \/ outcome[p] = "429" /\ calls[p] = [next |-> 0, json |-> 1]
    /\ pc[p] \in {"resume", "stamp", "set", "respond"} =>
         outcome[p] = "none" /\ calls[p] = NoCalls

\* The GET returned a value JSON.parse rejects, and the request went through.
C12_Witness ==
  \E p \in Procs :
    /\ pc[p] = "done"
    /\ ops[p] = [get |-> "hit", set |-> "none"]
    /\ outcome[p] = "next"
    /\ calls[p] = [next |-> 1, json |-> 0]
    /\ redis[apiKey[p]].val = Garbage

\* C13: clock regression: a check that reads an entry whose lastRefillTime is
\* later than the current time computes a refill-adjusted count equal to the
\* stored count (elapsed time clamped to 0), never fewer tokens than stored.
C13_Step ==
  \A p \in Procs :
    (/\ pc[p] = "resume"
     /\ Acted(p)
     /\ bucketData[p] # NullText
     /\ now < JSONparse(bucketData[p]).lastRefillTime) =>
      Refilled(p).tokens = JSONparse(bucketData[p]).tokens

C13_ClockRegressionClamped == [][C13_Step]_vars

\* C14: for a stored count s with 0 <= s <= capacity, capacity > 0 and
\* now >= lastRefillTime, calculateTokens returns
\* min(capacity, s + (now - lastRefillTime) * rate), which is at most the
\* capacity and at least s.
C14_CalculateTokens ==
  \A p \in Procs :
    pc[p] = "calculated" =>
      LET b == JSONparse(bucketData[p])
          cap == Scale(maxTokens[p])
          raw == b.tokens + (now - b.lastRefillTime) * maxTokens[p]
      IN  (0 <= b.tokens /\ b.tokens <= cap /\ maxTokens[p] > 0 /\ now >= b.lastRefillTime) =>
            /\ currentTokens[p] = IF raw > cap THEN cap ELSE raw
            /\ currentTokens[p] <= cap
            /\ currentTokens[p] >= b.tokens

\* Test 3 of test-token-bucket.js: 50 tokens of 100, one minute later 51.67.
C14_Witness ==
  \E p \in Procs :
    /\ pc[p] = "calculated"
    /\ maxTokens[p] = 100
    /\ JSONparse(bucketData[p]).tokens = Scale(50)
    /\ now - JSONparse(bucketData[p]).lastRefillTime = 60000
    /\ 3 * currentTokens[p] = 155 * Scale(1)

\* The refill-adjusted count of the reply p holds, computed from the reply:
\* the capacity when there is no entry, else stored + elapsed * rate, capped.
Adjusted(p) ==
  IF bucketData[p] = NullText THEN Scale(maxTokens[p])
  ELSE LET b == JSONparse(bucketData[p])
           raw == b.tokens + (now - b.lastRefillTime) * maxTokens[p]
       IN  IF raw > Scale(maxTokens[p]) THEN Scale(maxTokens[p]) ELSE raw

\* C15: when the store answers, a check is allowed if and only if the
\* refill-adjusted token count is at least one token; a fraction below 1 and a
\* count of 0 are denied.
C15_Step ==
  \A p \in Procs :
    (pc[p] = "resume" /\ Acted(p)) =>
      /\ Adjusted(p) >= Scale(1) => pc'[p] = "stamp" /\ outcome'[p] = "none"
      /\ Adjusted(p) < Scale(1) => pc'[p] = "done" /\ outcome'[p] = "429"

C15_State ==
  \A p \in Procs :
    /\ pc[p] \in {"stamp", "set", "respond"} => currentTokens[p] >= Scale(1)
    /\ (pc[p] = "done" /\ ops[p].get \in {"null", "hit"} /\ ops[p].set # "none") =>
         outcome[p] = "next"
    /\ (pc[p] = "done" /\ ops[p].get \in {"null", "hit"} /\ ops[p].set = "none") =>
         outcome[p] = "429"

C15_AdmissionRule == []C15_State /\ [][C15_Step]_vars

\* A check that found 5/6 token (capacity 1, 50 minutes after the bucket was
\* emptied) was denied: one sixth of an hour is left to wait.
C15_Witness ==
  \E p \in Procs :
    /\ pc[p] = "done"
    /\ outcome[p] = "429"
    /\ ops[p].get = "hit"
    /\ maxTokens[p] = 1
    /\ headers[p].retryAfter = 600

\* C16: timeUntilNextToken(tokens, rate) is 0 when tokens >= 1, and otherwise
\* ceil((1 - tokens) / rate): a positive whole number of milliseconds, the
\* least after which the missing part of a token has accrued.
C16_TimeUntilNextToken ==
  \A p \in Procs :
    pc[p] = "timed" =>
      LET tokens == currentTokens[p]
          rate == maxTokens[p]
          ms == headers[p].reset
      IN  /\ tokens >= Scale(1) => ms = 0
          /\ tokens < Scale(1) =>
               /\ ms \in Nat /\ ms > 0
               /\ ms * rate >= Scale(1) - tokens
               /\ (ms - 1) * rate < Scale(1) - tokens

\* Capacity 7, no tokens: 3600000 / 7 = 514285.71 ms, rounded up.
C16_Witness ==
  \E p \in Procs :
    /\ pc[p] = "timed"
    /\ maxTokens[p] = 7
    /\ currentTokens[p] = 0
    /\ headers[p].reset = 514286

\* C17: every denied check answers 429 with limit = capacity, remaining = 0
\* and Retry-After = ceil(timeUntilNextToken(tokens, rate) / 1000) whole
\* seconds, at least 1; Retry-After is present on denied responses only.
C17_State ==
  \A p \in Procs :
    /\ (pc[p] = "done" /\ outcome[p] = "429") =>
         /\ calls[p].json = 1
         /\ headers[p].set = {"limit", "remaining", "retryAfter"}
         /\ headers[p].limit = maxTokens[p]
         /\ headers[p].remaining = 0
         /\ headers[p].retryAfter >= 1
    /\ outcome[p] # "429" => "retryAfter" \notin headers[p].set

C17_Step ==
  \A p \in Procs :
    (pc[p] = "resume" /\ Acted(p) /\ outcome'[p] = "429") =>
      LET ms == timeUntilNextToken(Adjusted(p), calculateRefillRate(maxTokens[p]))
          seconds == headers'[p].retryAfter
      IN  seconds = (ms \div 1000) + (IF ms % 1000 = 0 THEN 0 ELSE 1)

C17_DeniedResponse == []C17_State /\ [][C17_Step]_vars

\* Capacity 2, 2/3 token 50 minutes after the bucket was emptied and one
\* request let through: 10 minutes to wait.
C17_Witness ==
  \E p \in Procs :
    /\ pc[p] = "done"
    /\ outcome[p] = "429"
    /\ headers[p].limit = 2
    /\ headers[p].remaining = 0
    /\ headers[p].retryAfter = 600

\* C18: every check allowed on the token path reports limit = capacity,
\* remaining = floor(tokens - 1) with 0 <= remaining <= capacity - 1, and a
\* reset estimate of now + timeUntilNextToken(tokens - 1, rate); at that
\* instant the record the check stored has refilled to at least one token.
C18_Step ==
  \A p \in Procs :
    (pc[p] = "respond" /\ Acted(p)) =>
      LET left == currentTokens[p] - Scale(1)
          record == JSONparse(payload[p])
          reset == headers'[p].reset
      IN  /\ outcome'[p] = "next"
          /\ headers'[p].set = {"limit", "remaining", "reset"}
          /\ headers'[p].limit = maxTokens[p]
          /\ headers'[p].remaining * Scale(1) <= left
          /\ left < (headers'[p].remaining + 1) * Scale(1)
          /\ 0 <= headers'[p].remaining
          /\ headers'[p].remaining <= maxTokens[p] - 1
          /\ reset = now + timeUntilNextToken(left, calculateRefillRate(maxTokens[p]))
          /\ record.tokens + (reset - record.lastRefillTime) * maxTokens[p] >= Scale(1)

C18_AllowedResponse == [][C18_Step]_vars

\* C19: hourly limit: with sequential checks and the store answering, the
\* number of allowed requests of a principal in any interval of one hour is at
\* most its capacity (here: in the hour that begins with an allowed check).
C19_HourlyLimit ==
  \A k \in Keys : hourCount[k] <= max_requests_per_hour[k]

\* C20: bounded over-admission: at a fixed instant, for a bucket holding k
\* whole tokens and at most N invocations for the principal under way at any
\* time, the number of allowed checks over any interleaving of their reads
\* and writes is at most k + (N - 1).
C20_BoundedOverAdmission ==
  \A k \in Keys :
    held[k] >= 0 => hourCount[k] <= held[k] + (Cardinality(Procs) - 1)

\* C21: a stored value that cannot be deserialized into {tokens,
\* lastRefillTime} (unparsable text, or a record without the fields) is handled
\* like an absent entry: the check goes on as a cold start (capacity tokens,
\* one taken) to overwrite the entry.
C21_Step ==
  \A p \in Procs :
    (pc[p] = "resume" /\ Acted(p) /\ bucketData[p] \in {Garbage, EmptyObject}) =>
      /\ pc'[p] = "stamp"
      /\ newTokenCount'[p] = Scale(maxTokens[p] - 1)

C21_CorruptAsAbsent == [][C21_Step]_vars

\* What a store that never expires entries would make of the entry of k at
\* this instant: the refill-adjusted count of the value still held.
Unexpired(k) ==
  calculateTokens(Stored(k).tokens, Stored(k).lastRefillTime, max_requests_per_hour[k],
                  calculateRefillRate(max_requests_per_hour[k]))

\* C22: expiry is not observable when the clock never goes back: an entry that
\* has expired (3600 s after its last write) would refill to exactly the
\* capacity if it were still read, which is the count of the cold start the
\* check makes instead; so the decision, the reported remaining and the record
\* written (capacity - 1) are those a never-expiring store would give.
C22_ExpiryUnobservable ==
  /\ \A k \in Keys :
       (HasEntry(k) /\ Expired(k)) => Unexpired(k) = Scale(max_requests_per_hour[k])
  /\ \A p \in Procs :
       (/\ pc[p] = "resume"
        /\ bucketData[p] = NullText
        /\ HasEntry(apiKey[p])
        /\ Expired(apiKey[p])
        /\ maxTokens[p] = max_requests_per_hour[apiKey[p]]) =>
         Refilled(p).tokens = Unexpired(apiKey[p])

\* The entry holds 0 tokens and expires at this very instant, one hour after
\* it was stamped; a check has just read it as absent.
C22_Witness ==
  \E p \in Procs :
    /\ pc[p] = "resume"
    /\ bucketData[p] = NullText
    /\ HasEntry(apiKey[p])
    /\ Stored(apiKey[p]).tokens = 0
    /\ now = redis[apiKey[p]].expireAt
    /\ now - Stored(apiKey[p]).lastRefillTime = HOUR_IN_MS

\* C23: the check is a function of the stored state, the policy and the one
\* time value of the check: two invocations that were given the same stored
\* value, the same capacity and the same instant for the refill reach the same
\* decision and persist the same record.
C23_Deterministic ==
  \A p, q \in Procs :
    (/\ pc[p] \in {"set", "respond"}
     /\ pc[q] \in {"set", "respond"}
     /\ bucketData[p] = bucketData[q]
     /\ maxTokens[p] = maxTokens[q]
     /\ calcNow[p] = calcNow[q]) =>
       /\ newTokenCount[p] = newTokenCount[q]
       /\ payload[p] = payload[q]

\* The credential c names an active principal.
Resolves(c) == c \in api_keys /\ is_active[c]

C24_State ==
  \A p \in Procs :
    /\ (stage[p] = "finished" /\ statusCode[p] \in {401, 500}) =>
         (ops[p] = NoOps /\ pc[p] = "idle" /\ req_apiKey[p] = NoRow)
    /\ (pc[p] \notin {"idle", "done"} \/ ops[p] # NoOps) =>
         /\ req_apiKey[p].key \in api_keys
         /\ req_apiKey[p].key = x_api_key[p]
         /\ apiKey[p] = req_apiKey[p].key

C24_Step ==
  \A p \in Procs :
    (stage[p] = "auth" /\ stage'[p] # "auth" /\ ~Resolves(x_api_key[p])) =>
      /\ stage'[p] = "finished"
      /\ statusCode'[p] \in (IF x_api_key[p] = NoHeader THEN {401} ELSE {401, 500})
      /\ redis' = redis
      /\ ops'[p] = NoOps
      /\ pc'[p] = "idle"

C25_State ==
  \A p \in Procs :
    requestLog[p].state # "none" =>
      /\ stage[p] = "finished"
      /\ pc[p] = "done"
      /\ requestLog[p].status_code = statusCode[p]
      /\ statusCode[p] = (IF outcome[p] = "429" THEN 429 ELSE 200)

C25_Step ==
  \A p \in Procs :
    (requestLog[p].state = "pending" /\ requestLog'[p].state # "pending") =>
      /\ requestLog'[p].state \in {"written", "failed"}
      /\ UNCHANGED <<redis, pc, locals, stage, statusCode, table>>

\* C25: audit logging never affects admission: the log write of a request is
\* begun only when its response has finished, with the status code already
\* sent, and the end of the write, success or failure, changes neither a
\* decision, nor a response (status, headers), nor a bucket.
C25_AuditAfterResponse == []C25_State /\ [][C25_Step]_vars

\* The log write of an allowed request is still pending while a later request
\* was denied and its own log write failed.
C25_Witness ==
  \E p, q \in Procs :
    /\ requestLog[q] = [state |-> "pending", status_code |-> 200]
    /\ requestLog[p] = [state |-> "failed", status_code |-> 429]
    /\ statusCode[p] = 429
    /\ HasEntry(apiKey[p])

\* C28: the admin routes reject a non-positive capacity, so every row of
\* api_keys, and every policy an invocation of rateLimiter works with, has
\* capacity > 0 and refill rate > 0.
C28_PositivePolicy ==
  /\ \A k \in api_keys : max_requests_per_hour[k] > 0
  /\ \A p \in Procs :
       pc[p] \notin {"idle", "done"} =>
         (maxTokens[p] > 0 /\ calculateRefillRate(maxTokens[p]) > 0)

\* C26: every invocation produces its decision within the timeout of the
\* store command it waits for: no invocation is still waiting for its SET a
\* whole hour after it issued the command.
C26_BoundedWait ==
  \A p \in Procs :
    pc[p] = "set" => now - JSONparse(payload[p]).lastRefillTime < HOUR_IN_MS

C27_State ==
  \A p \in Procs :
    /\ ops[p].set # "none" => ops[p].get \in {"null", "hit"}
    /\ pc[p] \in {"resume", "stamp", "set"} => ops[p].set = "none"
    /\ pc[p] = "respond" => ops[p].set = "ok"
    /\ pc[p] = "done" =>
         /\ ops[p].get \in {"null", "hit", "fail"}
         /\ (outcome[p] = "429" \/ ops[p].get = "fail") => ops[p].set = "none"
         /\ (outcome[p] = "next" /\ ops[p].get # "fail") => ops[p].set \in {"ok", "fail"}

C27_Step ==
  /\ \A p \in Procs :
       /\ (pc[p] \in {"idle", "done"} /\ pc'[p] # pc[p]) =>
            (ops'[p].get \in {"null", "hit", "fail"} /\ ops'[p].set = "none")
       /\ pc[p] \notin {"idle", "done"} => ops'[p].get = ops[p].get
       /\ (pc[p] \notin {"idle", "done"} /\ ops'[p].set # ops[p].set) =>
            (pc[p] = "set" /\ canProceed(currentTokens[p]))
       /\ (pc[p] = "resume" /\ pc'[p] # "resume") =>
            (pc'[p] = "stamp" <=> canProceed(Refilled(p).tokens))
       /\ (pc[p] = "stamp" /\ pc'[p] # "stamp") => pc'[p] = "set"
       /\ (pc[p] = "set" /\ pc'[p] # "set") => ops'[p].set \in {"ok", "fail"}
  /\ redis' # redis =>
       \/ \E p \in Procs :
            /\ pc[p] = "set"
            /\ ops'[p].set = "ok"
            /\ redis' = RedisSet(apiKey[p], payload[p], EX)
       \/ \E k \in Keys : Expired(k) /\ redis' = [redis EXCEPT ![k] = NoEntry]

ReadOneToken(p) ==
  /\ pc[p] \in {"resume", "stamp", "set", "respond"}
  /\ bucketData[p] # NullText
  /\ JSONparse(bucketData[p]).tokens = Scale(1)

C29_Step ==
  \A p \in Procs :
    ReadOneToken(p) =>
      \/ ReadOneToken(p)'
      \/ /\ pc'[p] = "done"
         /\ outcome'[p] = "next"
         /\ headers'[p].set = {"limit", "remaining", "reset"}
         /\ headers'[p].remaining = 0

\* C29: at one instant, an invocation that read an entry holding exactly one
\* token is allowed (remaining 0) whatever the other invocations write before
\* it finishes: nothing is read again before its own SET, so two invocations
\* that both read the entry before either wrote are both allowed.
C29_RaceReachable == [][C29_Step]_vars

\* Capacity 2: the bucket held exactly one token when two overlapping
\* invocations began, and both were allowed; the entry holds 0 tokens.
C29_Witness ==
  \E k \in Keys :
    /\ Quiet
    /\ max_requests_per_hour[k] = 2
    /\ held[k] = 1
    /\ hourCount[k] = 2
    /\ HasEntry(k)
    /\ Stored(k).tokens = 0
    /\ \A p \in Procs : outcome[p] = "next" /\ headers[p].remaining = 0

C31_State ==
  \A p \in Procs :
    /\ stage[p] # "finished" => requestLog[p] = NoLog
    /\ (stage[p] = "finished" /\ req_apiKey[p] = NoRow) =>
         (requestLog[p] = NoLog /\ statusCode[p] \in {401, 500})
    /\ (stage[p] = "finished" /\ req_apiKey[p] # NoRow) =>
         /\ requestLog[p].state \in {"pending", "written", "failed"}
         /\ requestLog[p].status_code = statusCode[p]
         /\ outcome[p] = "429" => statusCode[p] = 429
         /\ outcome[p] = "next" => statusCode[p] = 200

C31_Step ==
  \A p \in Procs :
    requestLog'[p] # requestLog[p] =>
      \/ /\ requestLog[p] = NoLog
         /\ stage[p] = "limiter" /\ stage'[p] = "finished"
         /\ requestLog'[p].state = "pending"
      \/ /\ requestLog[p].state = "pending"
         /\ requestLog'[p].state \in {"written", "failed"}
         /\ requestLog'[p].status_code = requestLog[p].status_code
      \/ /\ requestLog[p].state \in {"written", "failed"}
         /\ stage'[p] = "auth"
         /\ requestLog'[p] = NoLog

LimbBits == 14
LimbBase == 2^LimbBits

RECURSIVE BNorm(_)
BNorm(a) ==
  IF a # <<>> /\ a[Len(a)] = 0 THEN BNorm(SubSeq(a, 1, Len(a) - 1)) ELSE a

RECURSIVE BFromInt(_)
BFromInt(n) ==
  IF n = 0 THEN <<>> ELSE <<n % LimbBase>> \o BFromInt(n \div LimbBase)

RECURSIVE BToInt(_)
BToInt(a) ==
  IF a = <<>> THEN 0 ELSE a[1] + LimbBase * BToInt(Tail(a))

BLimb(a, i) == IF i <= Len(a) THEN a[i] ELSE 0

RECURSIVE BCmpFrom(_, _, _)
BCmpFrom(a, b, i) ==
  IF i = 0 THEN 0
  ELSE IF BLimb(a, i) > BLimb(b, i) THEN 1
  ELSE IF BLimb(a, i) < BLimb(b, i) THEN -1
  ELSE BCmpFrom(a, b, i - 1)

BCmp(a, b) == BCmpFrom(a, b, IF Len(a) > Len(b) THEN Len(a) ELSE Len(b))

RECURSIVE BAddFrom(_, _, _, _)
BAddFrom(a, b, i, carry) ==
  IF i > Len(a) /\ i > Len(b)
  THEN IF carry = 0 THEN <<>> ELSE <<carry>>
  ELSE LET s == BLimb(a, i) + BLimb(b, i) + carry
       IN  <<s % LimbBase>> \o BAddFrom(a, b, i + 1, s \div LimbBase)

BAdd(a, b) == BAddFrom(a, b, 1, 0)

RECURSIVE BSubFrom(_, _, _, _)
BSubFrom(a, b, i, borrow) ==
  IF i > Len(a) THEN <<>>
  ELSE LET s == BLimb(a, i) - BLimb(b, i) - borrow
       IN  <<s % LimbBase>> \o BSubFrom(a, b, i + 1, IF s < 0 THEN 1 ELSE 0)

BSub(a, b) == BNorm(BSubFrom(a, b, 1, 0))

RECURSIVE BMulSmallFrom(_, _, _, _)
BMulSmallFrom(a, k, i, carry) ==
  IF i > Len(a)
  THEN IF carry = 0 THEN <<>> ELSE <<carry>>
  ELSE LET s == a[i] * k + carry
       IN  <<s % LimbBase>> \o BMulSmallFrom(a, k, i + 1, s \div LimbBase)

BMulSmall(a, k) == BNorm(BMulSmallFrom(a, k, 1, 0))

BShlLimbs(a, n) == IF a = <<>> THEN <<>> ELSE [i \in 1..n |-> 0] \o a

RECURSIVE BMulFrom(_, _, _)
BMulFrom(a, b, i) ==
  IF i > Len(b) THEN <<>>
  ELSE BAdd(BShlLimbs(BMulSmall(a, b[i]), i - 1), BMulFrom(a, b, i + 1))

BMul(a, b) == BMulFrom(a, b, 1)

BShl(a, n) == BShlLimbs(BMulSmall(a, 2^(n % LimbBits)), n \div LimbBits)

RECURSIVE BDivSmallFrom(_, _, _, _)
BDivSmallFrom(a, k, i, rem) ==
  IF i = 0 THEN <<>>
  ELSE LET s == rem * LimbBase + a[i]
       IN  BDivSmallFrom(a, k, i - 1, s % k) \o <<s \div k>>

BShr(a, n) ==
  LET drop == n \div LimbBits
      rest == IF drop >= Len(a) THEN <<>> ELSE SubSeq(a, drop + 1, Len(a))
  IN  BNorm(BDivSmallFrom(rest, 2^(n % LimbBits), Len(rest), 0))

RECURSIVE BitLenInt(_)
BitLenInt(n) == IF n = 0 THEN 0 ELSE 1 + BitLenInt(n \div 2)

BBitLen(a) ==
  IF a = <<>> THEN 0 ELSE LimbBits * (Len(a) - 1) + BitLenInt(a[Len(a)])

BBit(a, i) == (BLimb(a, i \div LimbBits + 1) \div 2^(i % LimbBits)) % 2

BMaxOf(S) == CHOOSE i \in S : \A j \in S : j <= i

\* One step of long division by b, whose top limb is at least LimbBase / 2:
\* the quotient and remainder of (above.r * LimbBase + limb) by b, the quotient
\* put below above.q.  The digit is estimated from the top limbs; the estimate
\* is the digit or exceeds it by at most 2 (Knuth, Algorithm D).
BDivStep(above, limb, b) ==
  IF above.r = <<>> /\ limb = 0
  THEN [q |-> BShlLimbs(above.q, 1), r |-> <<>>]
  ELSE LET r2 == <<limb>> \o above.r
           top == BLimb(r2, Len(b) + 1) * LimbBase + BLimb(r2, Len(b))
           est == top \div b[Len(b)]
           q0 == IF est > LimbBase - 1 THEN LimbBase - 1 ELSE est
           qd == BMaxOf({q \in (IF q0 > 2 THEN q0 - 2 ELSE 0)..q0 :
                           BCmp(BMulSmall(b, q), r2) <= 0})
       IN  [q |-> BNorm(<<qd>> \o above.q), r |-> BSub(r2, BMulSmall(b, qd))]

\* Long division, one limb of the dividend at a time, from the top; the
\* limbs above the first step are fewer than those of b and so a remainder.
RECURSIVE BDivModFrom(_, _, _)
BDivModFrom(a, b, i) ==
  IF i > Len(a) - (Len(b) - 1)
  THEN [q |-> <<>>, r |-> IF i > Len(a) THEN <<>> ELSE SubSeq(a, i, Len(a))]
  ELSE BDivStep(BDivModFrom(a, b, i + 1), a[i], b)

\* Quotient and remainder of a by b > 0; both are shifted first so that the
\* top limb of the divisor is at least LimbBase / 2.
BDivMod(a, b) ==
  LET s == LimbBits - BitLenInt(b[Len(b)])
      qr == BDivModFrom(BShl(a, s), BShl(b, s), 1)
  IN  [q |-> qr.q, r |-> BShr(qr.r, s)]

DZero == [m |-> <<>>, e |-> 0]

\* The double nearest to n * 2^e0, ties to even.
DRound(n, e0) ==
  LET cut == BBitLen(n) - 53
  IN  IF n = <<>> THEN DZero
      ELSE IF cut <= 0 THEN [m |-> BShl(n, -cut), e |-> e0 + cut]
      ELSE LET m0 == BShr(n, cut)
               c == BCmp(BSub(n, BShl(m0, cut)), BShl(<<1>>, cut - 1))
               m1 == IF c = 1 \/ (c = 0 /\ BBit(m0, 0) = 1)
                     THEN BAdd(m0, <<1>>) ELSE m0
           IN  IF BBitLen(m1) = 54
               THEN [m |-> BShr(m1, 1), e |-> e0 + cut + 1]
               ELSE [m |-> m1, e |-> e0 + cut]

DFromInt(n) == DRound(BFromInt(n), 0)

DAligned(x, y) ==
  LET e == Min(x.e, y.e)
  IN  [x |-> BShl(x.m, x.e - e), y |-> BShl(y.m, y.e - e), e |-> e]

DCmp(x, y) == LET a == DAligned(x, y) IN BCmp(a.x, a.y)

DAdd(x, y) ==
  IF x.m = <<>> THEN y
  ELSE IF y.m = <<>> THEN x
  ELSE LET a == DAligned(x, y) IN DRound(BAdd(a.x, a.y), a.e)

\* x - y for x >= y.
DSub(x, y) ==
  IF x.m = <<>> \/ y.m = <<>> THEN x
  ELSE LET a == DAligned(x, y) IN DRound(BSub(a.x, a.y), a.e)

DMul(x, y) ==
  IF x.m = <<>> \/ y.m = <<>> THEN DZero
  ELSE DRound(BMul(x.m, y.m), x.e + y.e)

\* x / y for y > 0.  The quotient is taken to 56 or 57 bits, with one more
\* bit below them that records a remainder, and then rounded once.
DDiv(x, y) ==
  IF x.m = <<>> \/ y.m = <<>> THEN DZero
  ELSE LET k == 56 + BBitLen(y.m) - BBitLen(x.m)
           qr == BDivMod(BShl(x.m, k), y.m)
           sticky == IF qr.r = <<>> THEN <<>> ELSE <<1>>
       IN  DRound(BAdd(BMulSmall(qr.q, 2), sticky), x.e - y.e - k - 1)

DFloor(x) == IF x.e >= 0 THEN BToInt(BShl(x.m, x.e)) ELSE BToInt(BShr(x.m, -x.e))

DCeil(x) ==
  IF x.e >= 0 THEN BToInt(BShl(x.m, x.e))
  ELSE LET q == BShr(x.m, -x.e)
       IN  BToInt(q) + (IF BShl(q, -x.e) = x.m THEN 0 ELSE 1)

(* -------------------- rateLimiter computed in doubles ------------------ *)

\* Clock steps of the checks computed in doubles, ms (capacities 1, 2 and 3).
DeltasDouble == {1000, 3000, 60000}

\* tokenBucket.js 49-52: maxTokens / HOUR_IN_MS.
calculateRefillRateDouble(maxTok) == DDiv(DFromInt(maxTok), DFromInt(HOUR_IN_MS))

\* tokenBucket.js 20-36, for a clock that has not gone back.
calculateTokensDouble(lastTokenCount, lastRefill, maxTok, refillRate) ==
  LET timeSinceLastRefill == now - lastRefill
      tokensToAdd == DMul(DFromInt(timeSinceLastRefill), refillRate)
      sum == DAdd(lastTokenCount, tokensToAdd)
  IN  IF DCmp(sum, DFromInt(maxTok)) > 0 THEN DFromInt(maxTok) ELSE sum

\* tokenBucket.js 61-63: currentTokens >= 1.
canProceedDouble(tokens) == DCmp(tokens, DFromInt(1)) >= 0

\* tokenBucket.js 72-79: Math.ceil((1 - currentTokens) / refillRate).
timeUntilNextTokenDouble(tokens, refillRate) ==
  IF DCmp(tokens, DFromInt(1)) >= 0 THEN 0
  ELSE DCeil(DDiv(DSub(DFromInt(1), tokens), refillRate))

\* Lines 35-51: the refill-adjusted token count, for the refillRate of line 27.
RefilledDouble(p, refillRate) ==
  IF bucketData[p] # NullText
  THEN LET bucket == JSONparse(bucketData[p])
       IN  [tokens |-> calculateTokensDouble(bucket.tokens, bucket.lastRefillTime,
                                             maxTokens[p], refillRate),
            lastRefillTime |-> bucket.lastRefillTime]
  ELSE [tokens |-> DFromInt(maxTokens[p]), lastRefillTime |-> now]

\* Lines 80-94: the 429 response.
DenyDouble(p, tokens, rate) ==
  \E ms \in {timeUntilNextTokenDouble(tokens, rate)} :
  \E retryAfter \in {DCeil(DDiv(DFromInt(ms), DFromInt(1000)))} :
      /\ headers' = [headers EXCEPT ![p] =
                       [set |-> {"limit", "remaining", "retryAfter"}, limit |-> maxTokens[p],
                        remaining |-> 0, reset |-> 0, retryAfter |-> retryAfter]]
      /\ outcome' = [outcome EXCEPT ![p] = "429"]
      /\ calls' = [calls EXCEPT ![p].json = @ + 1]
      /\ Return(p)
      /\ UNCHANGED redis

\* Lines 27, 32-57 and 78-95: the handler resumes with the reply of the GET;
\* the values are bound one after the other, as the statements compute them.
ResumeDouble(p) ==
  /\ pc[p] = "resume"
  /\ \E refillRate \in {calculateRefillRateDouble(maxTokens[p])} :
     \E r \in {RefilledDouble(p, refillRate)} :
       IF canProceedDouble(r.tokens)
       THEN /\ currentTokens' = [currentTokens EXCEPT ![p] = r.tokens]
            /\ lastRefillTime' = [lastRefillTime EXCEPT ![p] = r.lastRefillTime]
            /\ calcNow' = [calcNow EXCEPT ![p] = now]
            /\ newTokenCount' = [newTokenCount EXCEPT ![p] = DSub(r.tokens, DFromInt(1))]
            /\ pc' = [pc EXCEPT ![p] = "stamp"]
            /\ UNCHANGED <<redis, bucketData, payload, headers, outcome, calls>>
       ELSE DenyDouble(p, r.tokens, refillRate)
  /\ UNCHANGED <<now, ticks, max_requests_per_hour, apiKey, maxTokens, ops>>

\* Lines 68-77: headers, then next().
RespondDouble(p) ==
  /\ pc[p] = "respond"
  /\ \E refillRate \in {calculateRefillRateDouble(maxTokens[p])} :
     \E ms \in {timeUntilNextTokenDouble(newTokenCount[p], refillRate)} :
       headers' = [headers EXCEPT ![p] =
         [set |-> {"limit", "remaining", "reset"}, limit |-> maxTokens[p],
          remaining |-> DFloor(newTokenCount[p]), reset |-> now + ms, retryAfter |-> 0]]
  /\ outcome' = [outcome EXCEPT ![p] = "next"]
  /\ calls' = [calls EXCEPT ![p].next = @ + 1]
  /\ Return(p)
  /\ UNCHANGED <<now, ticks, redis, max_requests_per_hour, apiKey, maxTokens, ops>>

\* History: a denial points to the instant now + 1000 * Retry-After; the
\* earliest such instant still ahead is kept until a check is allowed.
HintedResume(p) ==
  /\ ResumeDouble(p)
  /\ LET k == apiKey[p]
         hint == now + 1000 * headers'[p].retryAfter
     IN  retryAt' =
           IF outcome'[p] # "429" THEN [retryAt EXCEPT ![k] = -1]
           ELSE IF retryAt[k] < 0 \/ now >= retryAt[k] \/ hint < retryAt[k]
           THEN [retryAt EXCEPT ![k] = hint]
           ELSE retryAt

\* The client waits as long as the Retry-After of its denied check says, or
\* a little longer.
WaitRetry(p, late) ==
  /\ Quiet
  /\ outcome[p] = "429"
  /\ ticks < MaxTicks
  /\ ticks' = ticks + 1
  /\ now' = now + 1000 * headers[p].retryAfter + late
  /\ UNCHANGED <<redis, max_requests_per_hour, pc, locals>>

\* Sequential checks of one worker, the store answering every command, the
\* clock moving forward between two checks.
NextDouble ==
  \/ \E k \in Keys : Get(Worker, k) /\ UNCHANGED history
  \/ HintedResume(Worker) /\ UNCHANGED <<seqvars, hourvars, held, appvars>>
  \/ Stamp(Worker) /\ UNCHANGED history
  \/ Set(Worker) /\ UNCHANGED history
  \/ RespondDouble(Worker) /\ UNCHANGED history
  \/ \E k \in Keys : Expire(k) /\ UNCHANGED history
  \/ \E d \in DeltasDouble : Quiet /\ Tick(d) /\ UNCHANGED history
  \/ \E late \in {0, 1} : WaitRetry(Worker, late) /\ UNCHANGED history   \* on time, or 1 ms late

SpecDouble == InitRace /\ [][NextDouble]_vars

\* C32 (retry hint is sufficient): when a check is denied with Retry-After r
\* at the instant t and no check of the principal is allowed in between, a
\* check at an instant >= t + 1000 * r is not denied.
C32_Step ==
  \A p \in Procs :
    (pc[p] = "resume" /\ outcome'[p] = "429") =>
      ~(retryAt[apiKey[p]] >= 0 /\ now >= retryAt[apiKey[p]])

C32_RetryHintSufficient == [][C32_Step]_vars

(* --------------------------- C33: lost consumption ---------------------- *)

\* C33 (no lost consumption): while the clock does not advance, every write to
\* a principal's entry stores a token count strictly lower than the count
\* stored before it, under every interleaving of concurrent invocations.
C33_Step ==
  \A p \in Procs :
    (pc[p] = "set" /\ pc'[p] = "respond" /\ now' = now /\ HasEntry(apiKey[p])
       /\ ~Expired(apiKey[p])) =>
      Stored(apiKey[p])'.tokens < Stored(apiKey[p]).tokens

C33_NoLostConsumption == [][C33_Step]_vars

(* ----------------- C34: allowed checks in a sliding hour ----------------- *)

\* Capacities and clock steps of the sliding hour: half an hour, and one
\* millisecond less than half an hour and than an hour.
CapacitiesWindow == {1, 2, 3, 10}

DeltasWindow == {1799999, 1800000, 3599999}

\* History: an allowed check at the instant now is counted in the interval
\* that began at hourStart, if it falls within one hour of it; any allowed
\* check may also begin the interval that is counted from then on.
WindowAllowed(k) ==
  \/ /\ hourCount[k] > 0
     /\ now >= hourStart[k]
     /\ now - hourStart[k] < HOUR_IN_MS
     /\ hourCount' = [hourCount EXCEPT ![k] = @ + 1]
     /\ UNCHANGED hourStart
  \/ /\ hourCount' = [hourCount EXCEPT ![k] = 1]
     /\ hourStart' = [hourStart EXCEPT ![k] = now]

\* Lines 68-77, with the allowed checks of the interval.
WindowRespond(p) == Respond(p) /\ WindowAllowed(apiKey[p])

\* Sequential checks, the store answering every command, the clock moving
\* forward between two checks.
NextWindow ==
  \/ \E p \in Procs, k \in Keys :
       Sequential(p) /\ Get(p, k) /\ UNCHANGED history
  \/ \E p \in Procs : Resume(p) /\ UNCHANGED history
  \/ \E p \in Procs : Stamp(p) /\ UNCHANGED history
  \/ \E p \in Procs : Set(p) /\ UNCHANGED history
  \/ \E p \in Procs : WindowRespond(p) /\ UNCHANGED <<seqvars, held, retryAt, appvars>>
  \/ \E k \in Keys : Expire(k) /\ UNCHANGED history
  \/ \E d \in DeltasWindow :
       Quiet /\ Tick(d) /\ UNCHANGED history

InitWindow == InitWith(CapacitiesWindow)

SpecWindow == InitWindow /\ [][NextWindow]_vars

\* C34 (burst bound): with sequential checks, the store answering and the
\* clock not going back, the number of allowed checks of a principal in any
\* interval of one hour is at most twice its capacity.
C34_BurstBound ==
  \A k \in Keys : hourCount[k] <= 2 * max_requests_per_hour[k]

\* More checks than the capacity were allowed within one hour, the last of
\* them after the clock moved: 2 * capacity - 1 of them.
C34_Witness ==
  \E k \in Keys :
    /\ max_requests_per_hour[k] >= 2
    /\ now > hourStart[k]
    /\ hourCount[k] = 2 * max_requests_per_hour[k] - 1

(* ------------------------ C35: two principals --------------------------- *)

\* A second principal, with a row and a bucket entry of its own.
OtherKey == "k2"

Principals == Keys \cup {OtherKey}

\* No other invocation for the principal k is under way.
AloneFor(p, k) ==
  \A q \in Procs \ {p} : pc[q] \in {"idle", "done"} \/ apiKey[q] # k

\* Lines 68-77; history: the allowed checks of the principals of Keys are
\* counted.
IsolationRespond(p) ==
  /\ Respond(p)
  /\ IF apiKey[p] \in Keys
     THEN /\ hourCount' = [hourCount EXCEPT ![apiKey[p]] = @ + 1]
          /\ UNCHANGED hourStart
     ELSE UNCHANGED hourvars

\* One hour passes while no invocation is under way: every bucket is full
\* again; history: the count of allowed checks starts anew.
HourPasses ==
  /\ Quiet
  /\ Tick(HOUR_IN_MS)
  /\ hourCount' = [k \in Keys |-> 0]
  /\ hourStart' = [k \in Keys |-> now']

\* Invocations for the two principals side by side, those of one principal
\* one after the other, the store answering every command.
NextIsolation ==
  \/ \E p \in Procs, k \in Principals :
       AloneFor(p, k) /\ Get(p, k) /\ UNCHANGED history
  \/ \E p \in Procs : Resume(p) /\ UNCHANGED history
  \/ \E p \in Procs : Stamp(p) /\ UNCHANGED history
  \/ \E p \in Procs : Set(p) /\ UNCHANGED history
  \/ \E p \in Procs : IsolationRespond(p) /\ UNCHANGED <<seqvars, held, retryAt, appvars>>
  \/ \E k \in Principals : Expire(k) /\ UNCHANGED history
  \/ HourPasses /\ UNCHANGED <<seqvars, held, retryAt, appvars>>

InitIsolation ==
  /\ now = 0
  /\ ticks = 0
  /\ redis = [k \in Principals |-> NoEntry]
  /\ max_requests_per_hour \in [Principals -> Capacities]
  /\ api_keys = Principals
  /\ is_active = [k \in Principals |-> TRUE]
  /\ InitLocals

SpecIsolation == InitIsolation /\ [][NextIsolation]_vars

\* C35 (principal isolation): an invocation for the principal A reads and
\* writes only the entry under A's key: the GET returns A's entry, every other
\* principal's entry is left as it was by each of its steps, and its decision
\* is the one A's own checks call for (denied exactly when A has been allowed
\* its capacity since its bucket was last full), whatever the other entry holds.
C35_Step ==
  \A p \in Procs :
    Acted(p) =>
      /\ \A b \in Principals \ {apiKey'[p]} : redis'[b] = redis[b]
      /\ pc'[p] = "resume" => bucketData'[p] = RedisGet(apiKey'[p])
      /\ (pc[p] = "resume" /\ apiKey[p] \in Keys) =>
           (outcome'[p] = "429" <=> hourCount[apiKey[p]] >= maxTokens[p])

C35_PrincipalIsolation == [][C35_Step]_vars

\* A check of a principal has been allowed and its entry holds a token, while
\* the entry of the other principal is at zero.
C35_Witness ==
  \E p \in Procs :
    /\ apiKey[p] \in Keys
    /\ pc[p] = "done"
    /\ outcome[p] = "next"
    /\ HasEntry(apiKey[p])
    /\ Stored(apiKey[p]).tokens >= Scale(1)
    /\ HasEntry(OtherKey)
    /\ Stored(OtherKey).tokens = 0

(* ------------------------- C36: capacity change ------------------------- *)

\* C36 (capacity change): after updateTier has changed a principal's capacity
\* to C', a later check (one whose request looks the row up after the change)
\* uses C' as limit and cap: the refill-adjusted count is at most C' even if
\* the stored count is higher, the reported remaining is at most C' - 1, and
\* an allowed check stores at most C' - 1.
C36_Step ==
  \A p \in Procs :
    LET c == req_apiKey[p].max_requests_per_hour
    IN  /\ (stage[p] = "auth" /\ stage'[p] = "limit") =>
             req_apiKey'[p].max_requests_per_hour = max_requests_per_hour[x_api_key[p]]
        /\ (stage[p] = "limit" /\ stage'[p] = "limiter") => maxTokens'[p] = c
        /\ (stage[p] = "limiter" /\ pc[p] = "resume" /\ pc'[p] = "stamp") =>
             /\ currentTokens'[p] <= Scale(c)
             /\ newTokenCount'[p] <= Scale(c - 1)
        /\ (stage[p] = "limiter" /\ pc[p] = "resume" /\ outcome'[p] = "429") =>
             /\ headers'[p].limit = c
             /\ headers'[p].remaining <= c - 1
        /\ (stage[p] = "limiter" /\ pc[p] = "set" /\ pc'[p] = "respond") =>
             Stored(apiKey[p])'.tokens <= Scale(c - 1)
        /\ (stage[p] = "limiter" /\ pc[p] = "respond" /\ pc'[p] = "done") =>
             /\ headers'[p].limit = c
             /\ headers'[p].remaining <= c - 1

C36_CapacityChange == [][C36_Step]_vars

(* --------------------------- C37: deactivation -------------------------- *)

\* deactivate(id) has succeeded for the key k.
Deactivated(k) == k \in api_keys /\ ~is_active[k]

\* The request of p has passed apiKeyAuth with the key k and is not answered yet.
PastAuth(p, k) == stage[p] \in {"limit", "limiter"} /\ req_apiKey[p].key = k

\* In this step the request of p issues the GET or the SET on the entry of k.
Touches(p, k) ==
  \/ stage[p] = "limit" /\ stage'[p] = "limiter" /\ req_apiKey[p].key = k
  \/ stage[p] = "limiter" /\ pc[p] = "set" /\ pc'[p] # "set" /\ apiKey[p] = k

\* Once deactivated, the key stays so under every admin operation, and a
\* request that presents it leaves apiKeyAuth rejected (401, or 500 when the
\* lookup itself throws), rateLimiter not entered.
C37_Rejected(k) ==
  /\ Deactivated(k)'
  /\ \A p \in Procs :
       (stage[p] = "auth" /\ x_api_key[p] = k /\ stage'[p] # "auth") =>
         /\ stage'[p] = "finished"
         /\ statusCode'[p] \in {401, 500}
         /\ pc'[p] = pc[p]
         /\ ops'[p] = ops[p]

\* C37 as stated (deactivation is permanent for admission): once
\* deactivate(id) has succeeded for a key, every later request presenting it
\* is rejected with 401 before the rate limiter runs, whatever admin operations
\* follow, and the key's bucket entry is neither read nor written again.
C37_OriginalStep ==
  \A k \in Keys :
    Deactivated(k) =>
      /\ C37_Rejected(k)
      /\ redis'[k] = redis[k]
      /\ \A p \in Procs : ~Touches(p, k)

C37_Step ==
  \A k \in Keys :
    Deactivated(k) =>
      /\ C37_Rejected(k)
      /\ (\A p \in Procs : ~PastAuth(p, k)) =>
           /\ \A p \in Procs : ~PastAuth(p, k)'
           /\ redis'[k] = redis[k]
           /\ \A p \in Procs : ~Touches(p, k)

====
